---- MODULE Spec2Model ----
(***************************************************************************)
(* PyMirBot: the connection / dispatch layer (mirbot/connection.py) and    *)
(* the request correlator built on it (mirbot/client.py).                  *)
(*                                                                         *)
(* Scheduling is asyncio's: every task runs from one suspension point      *)
(* (await) to the next without interruption, so one action of the model is *)
(* one such run of one task.  The tasks are the driver (the coroutine that *)
(* calls connect / send / disconnect), the callers of wait_disconnect, the *)
(* callers of _wait_for, and the receive and keepalive tasks every         *)
(* connect() creates.                                                      *)
(***************************************************************************)
EXTENDS Integers, Sequences, FiniteSets, TLC

\* ---------------------------------------------------------------- bounds
MaxConnects == 2
MaxFrames == 2
MaxHandlers == 2
MaxWrites == 1
MaxFutures == 3
MaxMsgs == 4

Gens == 1..MaxConnects
FutIds == 1..MaxFutures
Watchers == {"w1", "w2"}
Callers == {"c1", "c2"}
ObjIds == {5, 6}
\* Locations, map identities and direction bytes the server messages carry.
Locs == {1, 2}
Maps == {1, 2}
Dirs == {0, 8}
\* MirDirection: the eight members, numbered 0 (Up) to 7 (UpLeft)
MirDirections == 0..7
\* The messages that make an object appear, by the reducer they go to.
EntityKinds == {"player", "monster", "npc", "item", "gold"}
\* The amounts S_GainedGold, S_LoseGold and S_GainExperience carry
Amounts == {1, 3}
\* UserItem records: unique_id and count
Items == [unique_id : {1, 2}, count : {1, 2}]
None == [unique_id |-> 0, count |-> 0]

\* Server packet kinds (ServerPacketIds members used by login()).
Kinds == {"LoginSuccess", "Login"}
\* What one read of the stream can yield: a frame that decodes to a packet of a
\* kind, a header declaring a length below 4, a kind absent from the catalogue,
\* a payload whose decoding raises.
FrameTypes == Kinds \cup {"short", "unknown", "bad"}

\* Callbacks: a plain function, a plain function that raises, a coroutine
\* function, MirClient._dispatch_waiter and a state reducer.
UserTypes == {"sync", "raise", "coro"}
NoHandler == [reg |-> 0, type |-> "none"]
NoMsg == [kind |-> "none", seq |-> 0]

\* MirClient.on: event names
Events == {"any", "chat"}

\* The kinds MirClient.connect() and select_character() wait for, and the
\* result bytes S_ClientVersion and S_StartGame carry in the model: 1 passes
\* the version check, 4 starts the game.
ReplyKinds == {"ClientVersion", "StartGame", "UserInformation"}
Results == {1, 4}

VARIABLES
  connected,        \* MirConnection._connected
  disconnect_event, \* MirConnection._disconnect_event is set
  reader,           \* MirConnection._reader: stream id, 0 = None
  writer,           \* MirConnection._writer: stream id, 0 = None
  receive_task,     \* MirConnection._receive_task: task id, 0 = None
  keepalive_task,   \* MirConnection._keepalive_task: task id, 0 = None
  handlers,         \* MirConnection._handlers
  default_handler,  \* MirConnection._default_handler
  rx,               \* the receive tasks, by the connect() that created them
  ka,               \* the keepalive tasks
  stream,           \* the TCP streams opened so far
  nconn,            \* streams opened so far
  nframes,          \* frames read off the streams so far
  nreg,             \* callbacks registered so far
  log,              \* handler invocations, in the order they happened
  logging,          \* whether log is kept (the specifications that read it keep it)
  drv,              \* the driver coroutine
  watch,            \* the callers of wait_disconnect
  waiters,          \* MirClient._waiters
  fut,              \* the futures _wait_for created
  nfut,             \* futures created so far
  call,             \* the callers of _wait_for / login
  stage,            \* GameState.stage
  event_handlers,   \* MirClient._event_handlers
  players,          \* GameState.players
  monsters,         \* GameState.monsters
  npcs,             \* GameState.npcs
  ground_items,     \* GameState.ground_items
  map,              \* GameState.map_index, map_file, map_title
  char,             \* GameState.name, location, direction, dead, gold, experience, buffs
  inventory,        \* GameState.inventory
  wlast,            \* the last message folded into GameState, and how the reducer ended
  wire              \* bytes on their way through Packet.to_bytes, the frame reader
                    \* and the 7-bit integer codec

worldVars == <<players, monsters, npcs, ground_items, map, char, inventory, wlast>>
connVars == <<connected, disconnect_event, reader, writer, receive_task, keepalive_task>>
regVars == <<handlers, default_handler, nreg, logging>>
waitVars == <<waiters, fut, nfut, call>>
vars == <<connected, disconnect_event, reader, writer, receive_task, keepalive_task,
          handlers, default_handler, rx, ka, stream, nconn, nframes, nreg, log,
          logging, drv, watch, waiters, fut, nfut, call, stage, event_handlers, worldVars, wire>>

\* ---------------------------------------------------------------- helpers
\* GameState() as the dataclass defaults build it
Absent == [present |-> FALSE, location |-> 0, dead |-> FALSE, health |-> 0]
Entry(loc, d) == [present |-> TRUE, location |-> loc, dead |-> d, health |-> 0]
NoWMsg == [type |-> "none", id |-> 0, kind |-> "none", n |-> 0, raised |-> FALSE,
           held |-> {}]
NoWire == [op |-> "none"]
NewGameState ==
  /\ players = [o \in ObjIds |-> Absent]
  /\ monsters = [o \in ObjIds |-> Absent]
  /\ npcs = [o \in ObjIds |-> Absent]
  /\ ground_items = [o \in ObjIds |-> Absent]
  /\ map = [index |-> 0, file |-> 0, title |-> 0]
  /\ char = [name |-> 0, location |-> 0, direction |-> 0, dead |-> FALSE, gold |-> 0,
             experience |-> 0, buffs |-> {}]
  /\ inventory = <<>>
  /\ wlast = NoWMsg

InSeq(x, s) == \E i \in 1..Len(s) : s[i] = x

RECURSIVE Without(_, _)
\* list.remove of every element of S (each future is in a list at most once)
Without(s, S) ==
  IF s = <<>> THEN <<>>
  ELSE IF Head(s) \in S THEN Without(Tail(s), S)
       ELSE <<Head(s)>> \o Without(Tail(s), S)

NewTask == [pc |-> "new", cancel |-> FALSE, rd |-> 0, kind |-> "none", seq |-> 0, hidx |-> 0]
NoTask == [pc |-> "none", cancel |-> FALSE, rd |-> 0, kind |-> "none", seq |-> 0, hidx |-> 0]
IdleCall ==
  [pc |-> "idle", op |-> "none", ids |-> <<>>, futs |-> <<>>, timed |-> FALSE,
   cancel |-> FALSE, reg |-> 0, res |-> [status |-> "none", msg |-> NoMsg]]
NewStream == [status |-> "open", closed |-> FALSE, written |-> 0]
NoStream == [status |-> "none", closed |-> FALSE, written |-> 0]

TaskDone(t) == t.pc \in {"done", "cancelled", "failed"}

\* Task.cancel(): a finished task is left alone, a live one gets CancelledError
\* thrown in at its next resumption.
CancelTask(t) == IF TaskDone(t) \/ t.pc = "none" THEN t ELSE [t EXCEPT !.cancel = TRUE]

\* A task that ended: what it was doing is gone.
Ended(t, how) == [NoTask EXCEPT !.pc = how]

\* asyncio.Event.set(): every caller blocked in wait() gets its future resolved.
EventSetWakes == [w \in Watchers |-> IF watch[w] = "blocked" THEN "woken" ELSE watch[w]]

\* ---------------------------------------------------------------- connection
\* (mutant) connect() that forgets to clear the event
ConnectMark_NoClear ==
  /\ connected' = TRUE
  /\ UNCHANGED <<disconnect_event, watch>>

\* connect(), lines 43-44
ConnectMark ==
  /\ connected' = TRUE
  /\ disconnect_event' = FALSE
  /\ watch' = watch

\* disconnect(), lines 60-61
DisconnectMark ==
  /\ connected' = FALSE
  /\ disconnect_event' = TRUE
  /\ watch' = EventSetWakes

\* (mutant) a finally block that does not set the event
ReceiveLoopFinally_NoEvent ==
  /\ connected' = FALSE
  /\ UNCHANGED <<disconnect_event, watch>>

\* _receive_loop, the finally block
ReceiveLoopFinally ==
  /\ connected' = FALSE
  /\ disconnect_event' = TRUE
  /\ watch' = EventSetWakes

\* (mutant) a guard that tests the writer only
SendNotConnected_WriterOnly == writer = 0

\* send(), the guard
SendNotConnected == ~connected \/ writer = 0

\* StreamWriter.drain() raises once the transport has lost the connection.
DrainRaises(s) == stream[s].status = "reset" \/ stream[s].closed

\* An operation of the driver has completed with outcome r.
DrvDone(r) ==
  [pc |-> "idle", op |-> "none", last |-> r,
   twice |-> (r \in {"disconnected", "client_disconnected"}
              /\ drv.last \in {"disconnected", "client_disconnected"})]

\* The driver is suspended inside disconnect().
DrvAt(pc, cl) ==
  [pc |-> pc, op |-> IF cl THEN "client_disconnect" ELSE "disconnect",
   last |-> drv.last, twice |-> drv.twice]

\* connect() is suspended in open_connection for at least one pass of the
\* event loop, so every task created before the call has taken its first step
\* by the time the call goes on (or fails).
TasksStarted == \A g \in Gens : rx[g].pc # "new" /\ ka[g].pc # "new"

\* connect(): open_connection succeeded
Connect ==
  /\ drv.pc = "idle"
  /\ nconn < MaxConnects
  /\ TasksStarted
  /\ LET s == nconn + 1 IN
       /\ nconn' = s
       /\ reader' = s
       /\ writer' = s
       /\ stream' = [stream EXCEPT ![s] = NewStream]
       /\ ConnectMark
       /\ rx' = [rx EXCEPT ![s] = NewTask]
       /\ ka' = [ka EXCEPT ![s] = NewTask]
       /\ receive_task' = s
       /\ keepalive_task' = s
  /\ drv' = DrvDone("connected")
  /\ UNCHANGED <<regVars, waitVars, nframes, log, stage, event_handlers, worldVars, wire>>

\* connect(): open_connection raised; nothing was assigned
ConnectFails ==
  /\ drv.pc = "idle"
  /\ nconn < MaxConnects
  /\ TasksStarted
  /\ drv' = DrvDone("connect_failed")
  /\ UNCHANGED <<connVars, regVars, waitVars, rx, ka, stream, nconn, nframes, log,
                 watch, stage, event_handlers, worldVars, wire>>

\* send(packet) by the driver
Send ==
  /\ drv.pc = "idle"
  /\ IF SendNotConnected
       THEN /\ drv' = DrvDone("not_connected")
            /\ stream' = stream
       ELSE /\ stream[writer].written < MaxWrites
            /\ stream' = [stream EXCEPT ![writer].written = @ + 1]
            /\ drv' = DrvDone(IF DrainRaises(writer) THEN "send_failed" ELSE "sent")
  /\ UNCHANGED <<connVars, regVars, waitVars, rx, ka, nconn, nframes, log, watch, stage, event_handlers, worldVars, wire>>

\* (mutant) a disconnect() that cancels the two tasks and closes the stream
\* without awaiting either task
DisconnectSteps_NoAwait(p, cl, st) ==
  LET kt == keepalive_task
      rt == receive_task
      blockWc == p = 1 /\ writer # 0
      goFin == (p = 1 /\ writer = 0) \/ p = 4
  IN
  /\ IF p = 1 THEN DisconnectMark ELSE UNCHANGED <<connected, disconnect_event, watch>>
  /\ ka' = IF p = 1 /\ kt # 0 THEN [ka EXCEPT ![kt] = CancelTask(@)] ELSE ka
  /\ rx' = IF p = 1 /\ rt # 0 THEN [rx EXCEPT ![rt] = CancelTask(@)] ELSE rx
  /\ stream' = IF blockWc THEN [st EXCEPT ![writer].closed = TRUE] ELSE st
  /\ reader' = IF goFin THEN 0 ELSE reader
  /\ writer' = IF goFin THEN 0 ELSE writer
  /\ stage' = IF goFin /\ cl THEN "NONE" ELSE stage
  /\ drv' = IF blockWc THEN DrvAt("d_wc", cl)
            ELSE DrvDone(IF cl THEN "client_disconnected" ELSE "disconnected")
  /\ UNCHANGED <<receive_task, keepalive_task, regVars, nconn, nframes, log,
                 event_handlers, worldVars, wire>>

\* disconnect(), run from phase p to its next suspension point or its end:
\*   1 the call, 2 the keepalive task has been awaited, 3 the receive task has
\*   been awaited, 4 wait_closed() is over.
\* cl: the call is MirClient.disconnect(), which ends by resetting the stage;
\* st: the streams as the caller leaves them.
DisconnectSteps(p, cl, st) ==
  LET kt == keepalive_task
      rt == receive_task
      blockKa == p = 1 /\ kt # 0 /\ ~TaskDone(ka[kt])
      raiseKa == p <= 2 /\ kt # 0 /\ ~blockKa /\ ka[kt].pc = "failed"
      goRx == p <= 2 /\ ~blockKa /\ ~raiseKa
      blockRx == goRx /\ rt # 0 /\ ~TaskDone(rx[rt])
      raiseRx == (goRx \/ p = 3) /\ rt # 0 /\ ~blockRx /\ rx[rt].pc = "failed"
      goClose == (goRx \/ p = 3) /\ ~blockRx /\ ~raiseRx
      blockWc == goClose /\ writer # 0
      goFin == (goClose /\ writer = 0) \/ p = 4
  IN
  /\ IF p = 1 THEN DisconnectMark ELSE UNCHANGED <<connected, disconnect_event, watch>>
  /\ ka' = IF p = 1 /\ kt # 0 THEN [ka EXCEPT ![kt] = CancelTask(@)] ELSE ka
  /\ rx' = IF goRx /\ rt # 0 THEN [rx EXCEPT ![rt] = CancelTask(@)] ELSE rx
  /\ stream' = IF blockWc THEN [st EXCEPT ![writer].closed = TRUE] ELSE st
  /\ reader' = IF goFin THEN 0 ELSE reader
  /\ writer' = IF goFin THEN 0 ELSE writer
  /\ stage' = IF goFin /\ cl THEN "NONE" ELSE stage
  /\ drv' = IF blockKa THEN DrvAt("d_ka", cl)
            ELSE IF blockRx THEN DrvAt("d_rx", cl)
            ELSE IF blockWc THEN DrvAt("d_wc", cl)
            ELSE IF raiseKa \/ raiseRx THEN DrvDone("disconnect_raised")
            ELSE DrvDone(IF cl THEN "client_disconnected" ELSE "disconnected")
  /\ UNCHANGED <<receive_task, keepalive_task, regVars, nconn, nframes, log,
                 event_handlers, worldVars, wire>>

\* disconnect() called by code that is not itself inside a facade call
DisconnectRun(p, cl, st) ==
  /\ DisconnectSteps(p, cl, st)
  /\ UNCHANGED waitVars

\* MirConnection.disconnect() is called
Disconnect ==
  /\ drv.pc = "idle"
  /\ DisconnectRun(1, FALSE, stream)

\* disconnect() resumes: the task it awaited has ended, or wait_closed() is over
\* (whatever wait_closed() raised is swallowed)
DisconnectResume ==
  \/ /\ drv.pc = "d_ka"
     /\ TaskDone(ka[keepalive_task])
     /\ DisconnectRun(2, drv.op = "client_disconnect", stream)
  \/ /\ drv.pc = "d_rx"
     /\ TaskDone(rx[receive_task])
     /\ DisconnectRun(3, drv.op = "client_disconnect", stream)
  \/ /\ drv.pc = "d_wc"
     /\ DisconnectRun(4, drv.op = "client_disconnect", stream)

\* wait_disconnect(): Event.wait() returns at once when the event is set
WaitDisconnect(w) ==
  /\ watch[w] = "idle"
  /\ watch' = [watch EXCEPT ![w] = IF disconnect_event THEN "idle" ELSE "blocked"]
  /\ UNCHANGED <<connVars, regVars, waitVars, rx, ka, stream, nconn, nframes, log,
                 drv, stage, event_handlers, worldVars, wire>>

\* a woken caller of wait_disconnect() runs again and returns
WaitDisconnectResume(w) ==
  /\ watch[w] = "woken"
  /\ watch' = [watch EXCEPT ![w] = "idle"]
  /\ UNCHANGED <<connVars, regVars, waitVars, rx, ka, stream, nconn, nframes, log,
                 drv, stage, event_handlers, worldVars, wire>>

\* the peer closes its side of a stream (EOF), or the transport breaks
PeerClose(s, how) ==
  /\ stream[s].status = "open" /\ ~stream[s].closed
  /\ stream' = [stream EXCEPT ![s].status = how]
  /\ UNCHANGED <<connVars, regVars, waitVars, rx, ka, nconn, nframes, log, drv,
                 watch, stage, event_handlers, worldVars, wire>>

\* MirClient.disconnect(): C_Disconnect is sent only while connected, and whatever
\* the send raises is swallowed
ClientDisconnect ==
  /\ drv.pc = "idle"
  /\ IF ~connected
       THEN /\ stage' = "NONE"
            /\ drv' = DrvDone("client_disconnected")
            /\ UNCHANGED <<connVars, regVars, waitVars, rx, ka, stream, nconn, nframes,
                           log, watch, event_handlers, worldVars, wire>>
       ELSE IF SendNotConnected
            THEN DisconnectRun(1, TRUE, stream)
            ELSE /\ stream[writer].written < MaxWrites
                 /\ DisconnectRun(1, TRUE, [stream EXCEPT ![writer].written = @ + 1])

\* (mutant) a registration that puts the callback in front of the list, ahead
\* of the state reducers
OnPacketFirst(hs, h) == <<h>> \o hs

\* on_packet(packet_id, callback)
OnPacketAppend(hs, h) == Append(hs, h)

OnPacket(k, ty) ==
  /\ drv.pc = "idle"
  /\ nreg < MaxHandlers
  /\ nreg' = nreg + 1
  /\ handlers' = [handlers EXCEPT ![k] = OnPacketAppend(@, [reg |-> nreg + 1, type |-> ty])]
  /\ UNCHANGED <<connVars, default_handler, logging, waitVars, rx, ka, stream, nconn,
                 nframes, log, drv, watch, stage, event_handlers, worldVars, wire>>

\* on_any_packet(callback)
OnAnyPacket(ty) ==
  /\ drv.pc = "idle"
  /\ nreg < MaxHandlers
  /\ nreg' = nreg + 1
  /\ default_handler' = [reg |-> nreg + 1, type |-> ty]
  /\ UNCHANGED <<connVars, handlers, logging, waitVars, rx, ka, stream, nconn,
                 nframes, log, drv, watch, stage, event_handlers, worldVars, wire>>

\* ---------------------------------------------------------------- receive loop
\* StreamReader allows one reader at a time: a second readexactly() on a
\* stream another task is suspended on raises RuntimeError.
ReaderBusy(s, g) == \E h \in Gens : h # g /\ rx[h].pc = "read" /\ rx[h].rd = s

\* The while condition of line 107 and the read of line 109: the loop ends
\* (normally, or on the RuntimeError of a busy reader, line 158) or suspends in
\* a read of the stream self._reader names now.
LoopHead(g) ==
  IF ~connected \/ reader = 0 \/ ReaderBusy(reader, g)
    THEN Ended(rx[g], "done")
    ELSE [NewTask EXCEPT !.pc = "read", !.rd = reader]

\* (mutant) handler calls without their try/except
HandlerErrorCaught_Not(ev) == ev \notin {"raise", "coro_raise"}

\* The except clauses around each handler call (lines 143-144, 151-152) catch
\* what a handler raises.
HandlerErrorCaught(ev) == TRUE

\* (mutant) a dispatcher that indexes the waiter map: KeyError for a kind
\* nobody waits for
DispatchWaiterRaises_KeyError(k) == waiters[k] = <<>>

\* MirClient._dispatch_waiter, line 406: self._waiters.get(pid, []) yields an
\* empty list for a kind without waiters, and nothing else in it can raise.
DispatchWaiterRaises(k) == FALSE

\* (mutant) a dispatcher that ignores the packet id
DispatchWaiter_AnyKind(k, m) ==
  [f \in FutIds |->
     IF fut[f].state = "pending" /\ (\E j \in Kinds : InSeq(f, waiters[j]))
       THEN [state |-> "done", msg |-> m]
       ELSE fut[f]]

\* (mutant) a dispatcher without the fut.done() test of line 408: the latest
\* message of the kind replaces the stored one
DispatchWaiter_LastWins(k, m) ==
  [f \in FutIds |->
     IF InSeq(f, waiters[k]) /\ fut[f].state \in {"pending", "done"}
       THEN [state |-> "done", msg |-> m]
       ELSE fut[f]]

\* MirClient._dispatch_waiter
DispatchWaiter(k, m) ==
  [f \in FutIds |->
     IF InSeq(f, waiters[k]) /\ fut[f].state = "pending"
       THEN [state |-> "done", msg |-> m]
       ELSE fut[f]]

\* state.py, on_login_success: the one reducer that writes the stage for the
\* kinds of the model
ReducerStage(k) == IF k = "LoginSuccess" THEN "SELECT" ELSE stage

RECURSIVE RunHandlers(_, _, _, _, _)
\* Lines 138-152 from handler position i on (0 the any-packet handler, i >= 1
\* the i-th handler of the kind, read off the live list), until a coroutine
\* handler suspends the loop (stop = its position), an error escapes (stop = -2)
\* or the handlers are exhausted (stop = -1).  inv: the invocations made.
RunHandlers(g, k, seq, i, inv) ==
  IF i > Len(handlers[k]) THEN [stop |-> -1, inv |-> inv]
  ELSE LET h == IF i = 0 THEN default_handler ELSE handlers[k][i] IN
       IF h.type = "none" THEN RunHandlers(g, k, seq, i + 1, inv)
       ELSE LET ev == IF h.type = "waiter" /\ DispatchWaiterRaises(k)
                        THEN "waiter_raise" ELSE h.type
                inv2 == Append(inv, [g |-> g, seq |-> seq, pos |-> i, reg |-> h.reg,
                                     ev |-> ev, n |-> Len(handlers[k])])
            IN IF h.type = "coro" THEN [stop |-> i, inv |-> inv2]
               ELSE IF ~HandlerErrorCaught(ev) THEN [stop |-> -2, inv |-> inv2]
               ELSE RunHandlers(g, k, seq, i + 1, inv2)

\* The receive task g delivers message (k, seq) from handler position i on and
\* runs to its next suspension point; pre: what the run did before.
Deliver(g, k, seq, i, pre) ==
  LET r == RunHandlers(g, k, seq, i, pre)
      ran(ev) == \E j \in 1..Len(r.inv) : r.inv[j].ev = ev
      nxt == IF r.stop >= 0
               THEN [NewTask EXCEPT !.pc = "handler", !.kind = k, !.seq = seq,
                                    !.hidx = r.stop]
             ELSE IF r.stop = -2 THEN Ended(rx[g], "done")
             ELSE LoopHead(g)
  IN
  /\ log' = IF logging THEN log \o r.inv ELSE log
  /\ rx' = [rx EXCEPT ![g] = nxt]
  /\ IF TaskDone(nxt) THEN ReceiveLoopFinally
                      ELSE UNCHANGED <<connected, disconnect_event, watch>>
  /\ fut' = IF ran("waiter") THEN DispatchWaiter(k, [kind |-> k, seq |-> seq]) ELSE fut
  /\ stage' = IF ran("reducer") THEN ReducerStage(k) ELSE stage
  /\ UNCHANGED <<event_handlers, worldVars, wire>>

\* The loop goes back to its head without delivering anything (continue).
Continue(g) ==
  /\ rx' = [rx EXCEPT ![g] = LoopHead(g)]
  /\ IF TaskDone(LoopHead(g)) THEN ReceiveLoopFinally
                              ELSE UNCHANGED <<connected, disconnect_event, watch>>
  /\ UNCHANGED <<log, fut, stage, event_handlers, worldVars, wire>>

\* The loop ends: the finally block runs.
RxEnds(g, how) ==
  /\ rx' = [rx EXCEPT ![g] = Ended(@, how)]
  /\ ReceiveLoopFinally
  /\ UNCHANGED <<log, fut, stage, event_handlers, worldVars, wire>>

\* the task's first run
RxStart(g) ==
  /\ rx[g].pc = "new" /\ ~rx[g].cancel
  /\ Continue(g)
  /\ UNCHANGED <<reader, writer, receive_task, keepalive_task, regVars, ka, stream,
                 nconn, nframes, drv, waiters, nfut, call>>

\* (mutant) a loop that an invalid length header ends
FrameOutcome_ShortEnds(f) ==
  IF f \in Kinds THEN "deliver" ELSE IF f = "short" THEN "end" ELSE "continue"

\* (mutant) a loop that an unknown kind or an undecodable payload ends
FrameOutcome_DropEnds(f) ==
  IF f \in Kinds THEN "deliver" ELSE IF f = "short" THEN "continue" ELSE "end"

\* What lines 109-133 do with a frame: a header declaring less than 4 bytes,
\* a payload parse_server_packet raises on and an id it returns None for all
\* take the loop back to its head (continue); the others are dispatched.
FrameOutcome(f) == IF f \in Kinds THEN "deliver" ELSE "continue"

\* a whole frame has arrived on the stream the task reads
RxFrame(g, f) ==
  /\ rx[g].pc = "read" /\ ~rx[g].cancel
  /\ stream[rx[g].rd].status = "open" /\ ~stream[rx[g].rd].closed
  /\ nframes < MaxFrames
  /\ nframes' = nframes + 1
  /\ CASE FrameOutcome(f) = "deliver" -> Deliver(g, f, nframes + 1, 0, <<>>)
       [] FrameOutcome(f) = "continue" -> Continue(g)
       [] OTHER -> RxEnds(g, "done")
  /\ UNCHANGED <<reader, writer, receive_task, keepalive_task, regVars, ka, stream,
                 nconn, drv, waiters, nfut, call>>

\* readexactly() raises IncompleteReadError (the peer closed, or the stream
\* was closed under the reader) or a transport error
RxReadFails(g) ==
  /\ rx[g].pc = "read" /\ ~rx[g].cancel
  /\ stream[rx[g].rd].status # "open" \/ stream[rx[g].rd].closed
  /\ RxEnds(g, "done")
  /\ UNCHANGED <<reader, writer, receive_task, keepalive_task, regVars, ka, stream,
                 nconn, nframes, drv, waiters, nfut, call>>

\* the coroutine a handler returned is over: it returned or it raised
RxHandlerDone(g, out) ==
  /\ rx[g].pc = "handler" /\ ~rx[g].cancel
  /\ LET t == rx[g]
         e == [g |-> g, seq |-> t.seq, pos |-> t.hidx, reg |-> 0, ev |-> out,
               n |-> Len(handlers[t.kind])]
     IN IF HandlerErrorCaught(out)
          THEN Deliver(g, t.kind, t.seq, t.hidx + 1, <<e>>)
          ELSE /\ rx' = [rx EXCEPT ![g] = Ended(@, "done")]
               /\ ReceiveLoopFinally
               /\ log' = IF logging THEN Append(log, e) ELSE log
               /\ UNCHANGED <<fut, stage, event_handlers, worldVars, wire>>
  /\ UNCHANGED <<reader, writer, receive_task, keepalive_task, regVars, ka, stream,
                 nconn, nframes, drv, waiters, nfut, call>>

\* CancelledError is thrown into the task: before its first run the coroutine
\* body never starts (no finally block); at an await it propagates through
\* the finally block
RxCancelled(g) ==
  /\ rx[g].pc \in {"new", "read", "handler"} /\ rx[g].cancel
  /\ rx' = [rx EXCEPT ![g] = Ended(@, "cancelled")]
  /\ IF rx[g].pc = "new" THEN UNCHANGED <<connected, disconnect_event, watch>>
                         ELSE ReceiveLoopFinally
  /\ UNCHANGED <<reader, writer, receive_task, keepalive_task, regVars, ka, stream,
                 nconn, nframes, log, drv, waitVars, stage, event_handlers, worldVars, wire>>

\* ---------------------------------------------------------------- keepalive loop
\* (mutant) a keepalive loop whose send error escapes the task
KeepaliveSendFailed_Escapes(t) == Ended(t, "failed")

\* except Exception of line 174: a failed send ends the loop, the task returns
KeepaliveSendFailed(t) == Ended(t, "done")

KaStart(g) ==
  /\ ka[g].pc = "new" /\ ~ka[g].cancel
  /\ ka' = [ka EXCEPT ![g] = IF connected THEN [NewTask EXCEPT !.pc = "sleep"]
                                          ELSE Ended(@, "done")]
  /\ UNCHANGED <<connVars, regVars, waitVars, rx, stream, nconn, nframes, log, drv,
                 watch, stage, event_handlers, worldVars, wire>>

\* (mutant) a keepalive loop that marks the connection Disconnected when its
\* send fails
KeepaliveFailureMark_Disconnects == ReceiveLoopFinally

\* lines 174-175: the handler of the send error logs it and does nothing else
KeepaliveFailureMark == UNCHANGED <<connected, disconnect_event, watch>>

\* sleep(5) is over: one keepalive is sent if still connected
KaTick(g) ==
  /\ ka[g].pc = "sleep" /\ ~ka[g].cancel
  /\ IF ~connected
       THEN /\ ka' = [ka EXCEPT ![g] = Ended(@, "done")]
            /\ stream' = stream
            /\ UNCHANGED <<connected, disconnect_event, watch>>
       ELSE IF SendNotConnected
            THEN /\ ka' = [ka EXCEPT ![g] = KeepaliveSendFailed(@)]
                 /\ stream' = stream
                 /\ KeepaliveFailureMark
            ELSE /\ stream[writer].written < MaxWrites
                 /\ stream' = [stream EXCEPT ![writer].written = @ + 1]
                 /\ IF DrainRaises(writer)
                      THEN /\ ka' = [ka EXCEPT ![g] = KeepaliveSendFailed(@)]
                           /\ KeepaliveFailureMark
                      ELSE /\ ka' = ka
                           /\ UNCHANGED <<connected, disconnect_event, watch>>
  /\ UNCHANGED <<reader, writer, receive_task, keepalive_task, regVars, waitVars, rx,
                 nconn, nframes, log, drv, stage, event_handlers, worldVars, wire>>

KaCancelled(g) ==
  /\ ka[g].pc \in {"new", "sleep"} /\ ka[g].cancel
  /\ ka' = [ka EXCEPT ![g] = Ended(@, "cancelled")]
  /\ UNCHANGED <<connVars, regVars, waitVars, rx, stream, nconn, nframes, log, drv,
                 watch, stage, event_handlers, worldVars, wire>>

\* ---------------------------------------------------------------- correlator
\* The futures of a call, as a set.
FutsOf(c) == {call[c].futs[i] : i \in 1..Len(call[c].futs)}

\* _wait_for, lines 380-385: one new future per id, appended to the id's list
WaitForRegister(ids) ==
  [k \in DOMAIN waiters |->
     waiters[k] \o SelectSeq([i \in 1..Len(ids) |-> nfut + i],
                             LAMBDA f : ids[f - nfut] = k)]

\* (mutant) a cleanup that visits the primary id only
WaitForCleanup_PrimaryOnly(c, how) ==
  [k \in DOMAIN waiters |->
     IF k = call[c].ids[1] THEN Without(waiters[k], FutsOf(c)) ELSE waiters[k]]

\* (mutant) a cleanup that runs after a normal return only (no try/finally)
WaitForCleanup_NoFinally(c, how) ==
  [k \in DOMAIN waiters |->
     IF how = "returned" /\ InSeq(k, call[c].ids)
       THEN Without(waiters[k], FutsOf(c)) ELSE waiters[k]]

\* _wait_for, the finally block: every future of the call leaves the list of
\* every id of the call (how: the way the call ends)
WaitForCleanup(c, how) ==
  [k \in DOMAIN waiters |->
     IF InSeq(k, call[c].ids) THEN Without(waiters[k], FutsOf(c)) ELSE waiters[k]]

\* The call registers and suspends in asyncio.wait.
Suspend(c, op, ids) ==
  /\ nfut + Len(ids) <= MaxFutures
  /\ nfut' = nfut + Len(ids)
  /\ waiters' = WaitForRegister(ids)
  /\ fut' = [f \in FutIds |->
               IF f > nfut /\ f <= nfut + Len(ids)
                 THEN [state |-> "pending", msg |-> NoMsg] ELSE fut[f]]
  /\ call' = [call EXCEPT ![c] =
               [pc |-> "waiting", op |-> op, ids |-> ids,
                futs |-> [i \in 1..Len(ids) |-> nfut + i], timed |-> FALSE,
                cancel |-> FALSE, reg |-> nframes,
                res |-> [status |-> "none", msg |-> NoMsg]]]

\* _wait_for(packet_id, timeout, alt_ids) is called; ids = [packet_id] + alt_ids
WaitFor(c, ids) ==
  /\ call[c].pc = "idle"
  /\ Suspend(c, "wait", ids)
  /\ UNCHANGED <<connVars, regVars, rx, ka, stream, nconn, nframes, log, drv, watch,
                 stage, event_handlers, worldVars, wire>>

\* login(): C_Login is sent, then LoginSuccess or Login is awaited
Login(c) ==
  /\ call[c].pc = "idle"
  /\ IF SendNotConnected
       THEN /\ call' = [call EXCEPT ![c] =
                         [IdleCall EXCEPT !.op = "login", !.res.status = "not_connected"]]
            /\ UNCHANGED <<stream, waiters, fut, nfut>>
       ELSE /\ stream[writer].written < MaxWrites
            /\ stream' = [stream EXCEPT ![writer].written = @ + 1]
            /\ IF DrainRaises(writer)
                 THEN /\ call' = [call EXCEPT ![c] =
                                   [IdleCall EXCEPT !.op = "login",
                                                    !.res.status = "send_failed"]]
                      /\ UNCHANGED <<waiters, fut, nfut>>
                 ELSE Suspend(c, "login", <<"LoginSuccess", "Login">>)
  /\ UNCHANGED <<connVars, regVars, rx, ka, nconn, nframes, log, drv, watch, stage, event_handlers, worldVars, wire>>

\* login(), with a transport whose write buffer is over its high-water mark:
\* send() has written C_Login (connection.py:55) and is suspended in drain()
\* (line 56); _wait_for has not been called yet
LoginDrain(c) ==
  /\ call[c].pc = "idle"
  /\ ~SendNotConnected
  /\ stream[writer].written < MaxWrites
  /\ ~DrainRaises(writer)
  /\ stream' = [stream EXCEPT ![writer].written = @ + 1]
  /\ call' = [call EXCEPT ![c] = [IdleCall EXCEPT !.pc = "draining", !.op = "login"]]
  /\ UNCHANGED <<connVars, regVars, rx, ka, nconn, nframes, log, drv, watch, waiters, fut,
                 nfut, stage, event_handlers, worldVars, wire>>

\* drain() resumes: it raises if the connection was lost meanwhile, else send()
\* returns and login() goes on to _wait_for (client.py:128-129)
LoginDrained(c) ==
  /\ call[c].pc = "draining"
  /\ IF writer = 0 \/ DrainRaises(writer)
       THEN /\ call' = [call EXCEPT ![c] =
                         [IdleCall EXCEPT !.op = "login", !.res.status = "send_failed"]]
            /\ UNCHANGED <<waiters, fut, nfut>>
       ELSE Suspend(c, "login", <<"LoginSuccess", "Login">>)
  /\ UNCHANGED <<connVars, regVars, rx, ka, stream, nconn, nframes, log, drv, watch, stage,
                 event_handlers, worldVars, wire>>

\* (mutant) a wait without timeout (asyncio.wait(futures, timeout=None))
TimerFires_Never(c) == FALSE /\ UNCHANGED vars

\* the timeout of asyncio.wait elapses with none of the futures done
TimerFires(c) ==
  /\ call[c].pc = "waiting" /\ ~call[c].timed /\ ~call[c].cancel
  /\ \A f \in FutsOf(c) : fut[f].state = "pending"
  /\ call' = [call EXCEPT ![c].timed = TRUE]
  /\ UNCHANGED <<connVars, regVars, rx, ka, stream, nconn, nframes, log, drv, watch,
                 waiters, fut, nfut, stage, event_handlers, worldVars, wire>>

\* the task that called _wait_for is cancelled while it waits
CancelCall(c) ==
  /\ call[c].pc = "waiting" /\ ~call[c].cancel
  /\ call' = [call EXCEPT ![c].cancel = TRUE]
  /\ UNCHANGED <<connVars, regVars, rx, ka, stream, nconn, nframes, log, drv, watch,
                 waiters, fut, nfut, stage, event_handlers, worldVars, wire>>

\* What the caller of login() gets for what _wait_for gave it (lines 131-135).
LoginOutcome(status, m) ==
  IF status # "returned" THEN status
  ELSE IF m.kind = "Login" THEN "login_failed" ELSE "login_ok"

\* _wait_for resumes, lines 388-401: CancelledError at the await, or the done
\* futures are collected, the pending ones cancelled, and a done one's result
\* is returned (done.pop() takes any) or TimeoutError is raised; the finally
\* block runs in every case.
WaitForResume(c) ==
  /\ call[c].pc = "waiting"
  /\ call[c].op \in {"wait", "login"}
  /\ LET done == {f \in FutsOf(c) : fut[f].state = "done"}
         how == IF call[c].cancel THEN "cancelled"
                ELSE IF done = {} THEN "timeout" ELSE "returned"
     IN /\ call[c].cancel \/ call[c].timed \/ done # {}
        /\ \E m \in IF how = "returned" THEN {fut[f].msg : f \in done} ELSE {NoMsg} :
             LET out == IF call[c].op = "login" THEN LoginOutcome(how, m) ELSE how IN
             /\ call' = [call EXCEPT ![c].pc = "idle", ![c].timed = FALSE,
                                     ![c].cancel = FALSE,
                                     ![c].res = [status |-> out, msg |-> m]]
             /\ stage' = IF out = "login_ok" THEN "SELECT" ELSE stage
        /\ fut' = [f \in FutIds |->
                     IF f \in FutsOf(c) /\ how # "cancelled" /\ fut[f].state = "pending"
                       THEN [fut[f] EXCEPT !.state = "cancelled"] ELSE fut[f]]
        /\ waiters' = WaitForCleanup(c, how)
  /\ UNCHANGED <<connVars, regVars, rx, ka, stream, nconn, nframes, log, drv, watch, nfut,
                 event_handlers, worldVars, wire>>

\* ---------------------------------------------------------------- events
\* MirClient.on(event, callback): the callback joins the event's list
On(ev) ==
  /\ nreg < MaxHandlers + 2
  /\ nreg' = nreg + 1
  /\ event_handlers' = [event_handlers EXCEPT ![ev] = Append(@, [reg |-> nreg + 1,
                                                                 type |-> "sync"])]
  /\ UNCHANGED <<connVars, handlers, default_handler, logging, waitVars, rx, ka, stream,
                 nconn, nframes, log, drv, watch, stage, worldVars, wire>>

\* ---------------------------------------------------------------- specifications
\* A MirConnection as constructed, its callbacks hs / dh registered.
Constructed(hs, dh, n, lg) ==
  /\ connected = FALSE
  /\ disconnect_event = FALSE
  /\ reader = 0
  /\ writer = 0
  /\ receive_task = 0
  /\ keepalive_task = 0
  /\ handlers = hs
  /\ default_handler = dh
  /\ rx = [g \in Gens |-> NoTask]
  /\ ka = [g \in Gens |-> NoTask]
  /\ stream = [g \in Gens |-> NoStream]
  /\ nconn = 0
  /\ nframes = 0
  /\ nreg = n
  /\ log = <<>>
  /\ logging = lg
  /\ drv = [pc |-> "idle", op |-> "none", last |-> "none", twice |-> FALSE]
  /\ watch = [w \in Watchers |-> "idle"]
  /\ waiters = [k \in Kinds |-> <<>>]
  /\ fut = [f \in FutIds |-> [state |-> "none", msg |-> NoMsg]]
  /\ nfut = 0
  /\ call = [c \in Callers |-> IdleCall]
  /\ stage = "NONE"
  /\ event_handlers = [e \in Events |-> <<>>]
  /\ NewGameState
  /\ wire = NoWire

\* The connection's life cycle: a connection with one coroutine handler
\* registered, a driver that connects, sends and disconnects, callers of
\* wait_disconnect, the peer, and the two loops of every connect().
Init ==
  Constructed([k \in Kinds |-> IF k = "Login" THEN <<[reg |-> 1, type |-> "coro"]>>
                                               ELSE <<>>],
              NoHandler, 1, FALSE)

Next ==
  \/ Connect
  \/ ConnectFails
  \/ Send
  \/ Disconnect
  \/ DisconnectResume
  \/ ClientDisconnect
  \/ \E w \in Watchers : WaitDisconnect(w)
  \/ \E w \in Watchers : WaitDisconnectResume(w)
  \/ \E s \in Gens, how \in {"eof", "reset"} : PeerClose(s, how)
  \/ \E g \in Gens : RxStart(g)
  \/ \E g \in Gens, f \in FrameTypes : RxFrame(g, f)
  \/ \E g \in Gens : RxReadFails(g)
  \/ \E g \in Gens, out \in {"coro_ok", "coro_raise"} : RxHandlerDone(g, out)
  \/ \E g \in Gens : RxCancelled(g)
  \/ \E g \in Gens : KaStart(g)
  \/ \E g \in Gens : KaTick(g)
  \/ \E g \in Gens : KaCancelled(g)

Spec == Init /\ [][Next]_vars

\* Dispatch: callbacks are registered at any time, connections are opened, and
\* the receive loops read and deliver frames.
InitDispatch == Constructed([k \in Kinds |-> <<>>], NoHandler, 0, TRUE)

NextDispatch ==
  \/ Connect
  \/ \E k \in Kinds, ty \in UserTypes : OnPacket(k, ty)
  \/ \E ty \in UserTypes : OnAnyPacket(ty)
  \/ \E s \in Gens, how \in {"eof", "reset"} : PeerClose(s, how)
  \/ \E g \in Gens : RxStart(g)
  \/ \E g \in Gens : KaStart(g)
  \/ \E g \in Gens, f \in FrameTypes : RxFrame(g, f)
  \/ \E g \in Gens : RxReadFails(g)
  \/ \E g \in Gens, out \in {"coro_ok", "coro_raise"} : RxHandlerDone(g, out)

SpecDispatch == InitDispatch /\ [][NextDispatch]_vars

\* The correlator: a MirClient as constructed (register_state_handlers, then
\* on_any_packet(_dispatch_waiter)) and connected, its two loops suspended in
\* their first read and sleep; the peer, the receive loop, and callers of
\* _wait_for and login().
WaitChoices ==
  {<<k>> : k \in Kinds} \cup {p \in {<<k, j>> : k \in Kinds, j \in Kinds} : p[1] # p[2]}

ClientConnected(lg) ==
  /\ connected = TRUE
  /\ disconnect_event = FALSE
  /\ reader = 1
  /\ writer = 1
  /\ receive_task = 1
  /\ keepalive_task = 1
  /\ handlers = [k \in Kinds |-> IF k = "LoginSuccess"
                                  THEN <<[reg |-> 1, type |-> "reducer"]>> ELSE <<>>]
  /\ default_handler = [reg |-> 2, type |-> "waiter"]
  /\ rx = [g \in Gens |-> IF g = 1 THEN [NewTask EXCEPT !.pc = "read", !.rd = 1]
                                   ELSE NoTask]
  /\ ka = [g \in Gens |-> IF g = 1 THEN [NewTask EXCEPT !.pc = "sleep"] ELSE NoTask]
  /\ stream = [g \in Gens |-> IF g = 1 THEN NewStream ELSE NoStream]
  /\ nconn = 1
  /\ nframes = 0
  /\ nreg = 2
  /\ log = <<>>
  /\ logging = lg
  /\ drv = [pc |-> "idle", op |-> "none", last |-> "connected", twice |-> FALSE]
  /\ watch = [w \in Watchers |-> "idle"]
  /\ waiters = [k \in Kinds |-> <<>>]
  /\ fut = [f \in FutIds |-> [state |-> "none", msg |-> NoMsg]]
  /\ nfut = 0
  /\ call = [c \in Callers |-> IdleCall]
  /\ stage = "NONE"
  /\ event_handlers = [e \in Events |-> <<>>]
  /\ NewGameState
  /\ wire = NoWire

InitWait == ClientConnected(FALSE)

NextWait ==
  \/ \E how \in {"eof", "reset"} : PeerClose(1, how)
  \/ \E f \in FrameTypes : RxFrame(1, f)
  \/ RxReadFails(1)
  \/ \E c \in Callers, ids \in WaitChoices : WaitFor(c, ids)
  \/ \E c \in Callers : Login(c)
  \/ \E c \in Callers : TimerFires(c)
  \/ \E c \in Callers : CancelCall(c)
  \/ \E c \in Callers : WaitForResume(c)

SpecWait == InitWait /\ [][NextWait]_vars

\* Pending: callers wait for messages while frames arrive and the peer closes
\* the connection, under the event loop's scheduling: the timer of a wait whose
\* futures are all pending fires (every caller passes a finite timeout), and a
\* caller whose wait is over resumes.
NextPending ==
  \/ \E how \in {"eof", "reset"} : PeerClose(1, how)
  \/ \E f \in FrameTypes : RxFrame(1, f)
  \/ RxReadFails(1)
  \/ \E c \in Callers, ids \in WaitChoices : WaitFor(c, ids)
  \/ \E c \in Callers : TimerFires(c)
  \/ \E c \in Callers : WaitForResume(c)

SpecPending ==
  /\ InitWait
  /\ [][NextPending]_vars
  /\ WF_vars(RxReadFails(1))
  /\ \A c \in Callers : WF_vars(TimerFires(c)) /\ WF_vars(WaitForResume(c))

\* Send: callers run login() on a transport that accepts the write at once or
\* only after a while, and the server answers the C_Login it got.
NextSend ==
  \/ \E c \in Callers : Login(c)
  \/ \E c \in Callers : LoginDrain(c)
  \/ \E c \in Callers : LoginDrained(c)
  \/ \E c \in Callers : TimerFires(c)
  \/ \E c \in Callers : CancelCall(c)
  \/ \E c \in Callers : WaitForResume(c)
  \/ \E f \in FrameTypes : stream[1].written > 0 /\ RxFrame(1, f)
  \/ RxReadFails(1)
  \/ \E how \in {"eof", "reset"} : PeerClose(1, how)

SpecSend == InitWait /\ [][NextSend]_vars

\* The life cycle under the event loop's scheduling: a task that can take a
\* step takes it (a created task starts, a cancelled task gets its
\* CancelledError, a failed read is reported, a sleep ends, an await whose task
\* is over resumes).  What the peer, the caller and a handler's coroutine do
\* is not forced.
NextLive ==
  \/ Connect
  \/ Disconnect
  \/ DisconnectResume
  \/ \E s \in Gens, how \in {"eof", "reset"} : PeerClose(s, how)
  \/ \E g \in Gens : RxStart(g)
  \/ \E g \in Gens, f \in FrameTypes : RxFrame(g, f)
  \/ \E g \in Gens : RxReadFails(g)
  \/ \E g \in Gens, out \in {"coro_ok", "coro_raise"} : RxHandlerDone(g, out)
  \/ \E g \in Gens : RxCancelled(g)
  \/ \E g \in Gens : KaStart(g)
  \/ \E g \in Gens : KaTick(g)
  \/ \E g \in Gens : KaCancelled(g)

SpecLive ==
  /\ Init
  /\ [][NextLive]_vars
  /\ WF_vars(DisconnectResume)
  /\ \A g \in Gens : /\ WF_vars(RxStart(g))
                      /\ WF_vars(RxReadFails(g))
                      /\ WF_vars(RxCancelled(g))
                      /\ WF_vars(KaStart(g))
                      /\ WF_vars(KaTick(g))
                      /\ WF_vars(KaCancelled(g))

\* Events: a connected MirClient whose caller registers event callbacks while
\* the receive loop reads and delivers frames.
InitEvents == ClientConnected(TRUE)

NextEvents ==
  \/ \E ev \in Events : On(ev)
  \/ \E how \in {"eof", "reset"} : PeerClose(1, how)
  \/ \E f \in FrameTypes : RxFrame(1, f)
  \/ RxReadFails(1)

SpecEvents == InitEvents /\ [][NextEvents]_vars

\* Frames: the connected client with every handler invocation recorded, its
\* callers waiting for messages while frames of every sort arrive.
NextFrames ==
  \/ \E how \in {"eof", "reset"} : PeerClose(1, how)
  \/ \E f \in FrameTypes : RxFrame(1, f)
  \/ RxReadFails(1)
  \/ \E c \in Callers, ids \in WaitChoices : WaitFor(c, ids)
  \/ \E c \in Callers : WaitForResume(c)

SpecFrames == InitEvents /\ [][NextFrames]_vars

\* MirClient.on_packet(packet_id, callback): the callback goes to the end of
\* the connection's list of the kind, behind the reducers.
ClientOnPacket(k, ty) ==
  /\ nreg < MaxHandlers + 1
  /\ nreg' = nreg + 1
  /\ handlers' = [handlers EXCEPT ![k] = OnPacketAppend(@, [reg |-> nreg + 1, type |-> ty])]
  /\ UNCHANGED <<connVars, default_handler, logging, waitVars, rx, ka, stream, nconn,
                 nframes, log, drv, watch, stage, event_handlers, worldVars, wire>>

\* Subscribers: the connected client, its caller subscribing plain callbacks
\* to kinds and waiting for messages while frames arrive.
NextSubscribe ==
  \/ \E k \in Kinds, ty \in {"sync", "raise"} : ClientOnPacket(k, ty)
  \/ \E how \in {"eof", "reset"} : PeerClose(1, how)
  \/ \E f \in FrameTypes : RxFrame(1, f)
  \/ RxReadFails(1)
  \/ \E c \in Callers, ids \in WaitChoices : WaitFor(c, ids)
  \/ \E c \in Callers : WaitForResume(c)

SpecSubscribe == InitEvents /\ [][NextSubscribe]_vars

\* Reduce: the connected client, its caller subscribing callbacks of every
\* sort, coroutine functions included, behind the state reducers, and waiting
\* for messages while frames arrive and the coroutines of handlers complete.
NextReduce ==
  \/ \E k \in Kinds, ty \in UserTypes : ClientOnPacket(k, ty)
  \/ \E f \in FrameTypes : RxFrame(1, f)
  \/ \E out \in {"coro_ok", "coro_raise"} : RxHandlerDone(1, out)
  \/ RxReadFails(1)
  \/ \E how \in {"eof", "reset"} : PeerClose(1, how)
  \/ \E c \in Callers, ids \in WaitChoices : WaitFor(c, ids)
  \/ \E c \in Callers : WaitForResume(c)

SpecReduce == InitEvents /\ [][NextReduce]_vars

\* ---------------------------------------------------------------- handshake
\* MirClient.connect() from the version check on, and select_character():
\* C_ClientVersion / C_StartGame is sent, then the reply is awaited.
FacadeIds(op) == IF op = "version" THEN <<"ClientVersion">> ELSE <<"StartGame">>

FacadeCall(c, op) ==
  /\ call[c].pc = "idle"
  /\ IF SendNotConnected
       THEN /\ call' = [call EXCEPT ![c] =
                         [IdleCall EXCEPT !.op = op, !.res.status = "not_connected"]]
            /\ UNCHANGED <<stream, waiters, fut, nfut>>
       ELSE /\ stream[writer].written < MaxWrites
            /\ stream' = [stream EXCEPT ![writer].written = @ + 1]
            /\ IF DrainRaises(writer)
                 THEN /\ call' = [call EXCEPT ![c] =
                                   [IdleCall EXCEPT !.op = op, !.res.status = "send_failed"]]
                      /\ UNCHANGED <<waiters, fut, nfut>>
                 ELSE Suspend(c, op, FacadeIds(op))
  /\ UNCHANGED <<connVars, regVars, rx, ka, nconn, nframes, log, drv, watch, stage,
                 event_handlers, worldVars, wire>>

\* on_user_info applied to the character fields ch: lines 116-121 write the
\* name and the location (the class and gender lookups in between are taken to
\* succeed), line 122 raises ValueError for a byte that is no MirDirection, and
\* only then the remaining fields are written.
UserInfoFold(ch, pkt) ==
  IF pkt.direction \in MirDirections
    THEN [ch EXCEPT !.name = pkt.name, !.location = pkt.location,
                    !.direction = pkt.direction, !.experience = pkt.experience,
                    !.gold = pkt.gold, !.dead = FALSE]
    ELSE [ch EXCEPT !.name = pkt.name, !.location = pkt.location]

\* The S_UserInformation the server sends for the character that was selected.
SelectedUser ==
  [name |-> 1, location |-> 1, direction |-> 0, experience |-> 0, gold |-> 0]

\* The receive loop reads S_ClientVersion, S_StartGame or S_UserInformation
\* carrying result r and dispatches it: _dispatch_waiter, then on_start_game
\* (state.py:106-108) for S_StartGame and on_user_info (115-133) for
\* S_UserInformation.  Invocations are not recorded in this part of the model.
RxReply(g, k, r) ==
  /\ ~logging
  /\ default_handler.type = "waiter"
  /\ rx[g].pc = "read" /\ ~rx[g].cancel
  /\ stream[rx[g].rd].status = "open" /\ ~stream[rx[g].rd].closed
  /\ nframes < MaxFrames
  /\ nframes' = nframes + 1
  /\ fut' = DispatchWaiter(k, [kind |-> k, seq |-> nframes + 1, result |-> r])
  /\ stage' = IF k = "StartGame" /\ r = 4 THEN "GAME" ELSE stage
  /\ rx' = [rx EXCEPT ![g] = LoopHead(g)]
  /\ IF TaskDone(LoopHead(g)) THEN ReceiveLoopFinally
                              ELSE UNCHANGED <<connected, disconnect_event, watch>>
  /\ char' = IF k = "UserInformation" THEN UserInfoFold(char, SelectedUser) ELSE char
  /\ inventory' = IF k = "UserInformation" THEN <<>> ELSE inventory
  /\ UNCHANGED <<reader, writer, receive_task, keepalive_task, regVars, ka, stream,
                 nconn, log, drv, waiters, nfut, call, event_handlers, players, monsters,
                 npcs, ground_items, map, wlast, wire>>

\* What connect() and select_character() make of what _wait_for gave them
\* (client.py:115-118, 153-157).
FacadeOutcome(op, how, m) ==
  IF how # "returned" THEN how
  ELSE IF op = "version" THEN (IF m.result # 1 THEN "version_failed" ELSE "version_ok")
  ELSE IF op = "start_game" THEN (IF m.result # 4 THEN "start_failed" ELSE "start_ok")
  ELSE how

\* (mutant) a connect() that raises on a failed version check without
\* disconnecting
RejectDisconnects_Never(out) == FALSE

\* client.py:116-118: the failed version check, and nothing else, makes the
\* facade call disconnect() before it raises
RejectDisconnects(out) == out = "version_failed"

\* The call is over with outcome out once the disconnect() it awaits, if any,
\* has returned.
CallOver(c, out, m) ==
  IF drv'.pc = "idle"
    THEN [call[c] EXCEPT !.pc = "idle", !.timed = FALSE, !.cancel = FALSE,
                         !.res = [status |-> out, msg |-> m]]
    ELSE [call[c] EXCEPT !.pc = "disconnecting", !.timed = FALSE, !.cancel = FALSE,
                         !.res = [status |-> "none", msg |-> m]]

\* _wait_for resumes inside connect() or select_character(): its finally block
\* runs, then the caller's code up to its next await or its end.
FacadeResume(c) ==
  /\ call[c].pc = "waiting"
  /\ call[c].op \in {"version", "start_game", "user_info"}
  /\ LET done == {f \in FutsOf(c) : fut[f].state = "done"}
         how == IF call[c].cancel THEN "cancelled"
                ELSE IF done = {} THEN "timeout" ELSE "returned"
         cancelled == [f \in FutIds |->
                         IF f \in FutsOf(c) /\ how # "cancelled" /\ fut[f].state = "pending"
                           THEN [fut[f] EXCEPT !.state = "cancelled"] ELSE fut[f]]
     IN /\ call[c].cancel \/ call[c].timed \/ done # {}
        /\ \E m \in IF how = "returned" THEN {fut[f].msg : f \in done} ELSE {NoMsg} :
             LET out == IF call[c].op = "user_info"
                          THEN (IF how = "returned" THEN "start_ok" ELSE how)
                          ELSE FacadeOutcome(call[c].op, how, m)
             IN
             IF RejectDisconnects(out)
               THEN /\ drv.pc = "idle"
                    /\ DisconnectSteps(1, FALSE, stream)
                    /\ call' = [call EXCEPT ![c] = CallOver(c, out, m)]
                    /\ fut' = cancelled
                    /\ waiters' = WaitForCleanup(c, how)
                    /\ nfut' = nfut
               ELSE IF out = "start_ok" /\ call[c].op = "start_game"
               THEN /\ nfut < MaxFutures
                    /\ nfut' = nfut + 1
                    /\ waiters' = [WaitForCleanup(c, how) EXCEPT
                                     !["UserInformation"] = Append(@, nfut + 1)]
                    /\ fut' = [cancelled EXCEPT ![nfut + 1] =
                                 [state |-> "pending", msg |-> NoMsg]]
                    /\ call' = [call EXCEPT ![c] =
                                 [call[c] EXCEPT !.op = "user_info",
                                                 !.ids = <<"UserInformation">>,
                                                 !.futs = <<nfut + 1>>, !.reg = nframes]]
                    /\ UNCHANGED <<connVars, regVars, rx, ka, stream, nconn, nframes, log,
                                   drv, watch, stage, event_handlers, worldVars, wire>>
               ELSE /\ call' = [call EXCEPT ![c].pc = "idle", ![c].timed = FALSE,
                                            ![c].cancel = FALSE,
                                            ![c].res = [status |-> out, msg |-> m]]
                    /\ fut' = cancelled
                    /\ waiters' = WaitForCleanup(c, how)
                    /\ UNCHANGED <<connVars, regVars, rx, ka, stream, nconn, nframes, log,
                                   drv, watch, nfut, stage, event_handlers, worldVars, wire>>

\* The disconnect() connect() awaits resumes; when it returns, connect() raises
\* ConnectionError.
RejectResume(c) ==
  /\ call[c].pc = "disconnecting"
  /\ \/ /\ drv.pc = "d_ka"
        /\ TaskDone(ka[keepalive_task])
        /\ DisconnectSteps(2, FALSE, stream)
     \/ /\ drv.pc = "d_rx"
        /\ TaskDone(rx[receive_task])
        /\ DisconnectSteps(3, FALSE, stream)
     \/ /\ drv.pc = "d_wc"
        /\ DisconnectSteps(4, FALSE, stream)
  /\ call' = [call EXCEPT ![c] = CallOver(c, "version_failed", call[c].res.msg)]
  /\ UNCHANGED <<waiters, fut, nfut>>

\* Handshake: the client whose connection has just been opened; its caller
\* runs the version check of connect(), login() and select_character() while
\* the server answers, accepting or rejecting.
InitHandshake ==
  /\ connected = TRUE
  /\ disconnect_event = FALSE
  /\ reader = 1
  /\ writer = 1
  /\ receive_task = 1
  /\ keepalive_task = 1
  /\ handlers = [k \in Kinds \cup ReplyKinds |->
                   IF k = "LoginSuccess" THEN <<[reg |-> 1, type |-> "reducer"]>> ELSE <<>>]
  /\ default_handler = [reg |-> 2, type |-> "waiter"]
  /\ rx = [g \in Gens |-> IF g = 1 THEN [NewTask EXCEPT !.pc = "read", !.rd = 1]
                                   ELSE NoTask]
  /\ ka = [g \in Gens |-> IF g = 1 THEN [NewTask EXCEPT !.pc = "sleep"] ELSE NoTask]
  /\ stream = [g \in Gens |-> IF g = 1 THEN NewStream ELSE NoStream]
  /\ nconn = 1
  /\ nframes = 0
  /\ nreg = 2
  /\ log = <<>>
  /\ logging = FALSE
  /\ drv = [pc |-> "idle", op |-> "none", last |-> "connected", twice |-> FALSE]
  /\ watch = [w \in Watchers |-> "idle"]
  /\ waiters = [k \in Kinds \cup ReplyKinds |-> <<>>]
  /\ fut = [f \in FutIds |-> [state |-> "none", msg |-> NoMsg]]
  /\ nfut = 0
  /\ call = [c \in Callers |-> IdleCall]
  /\ stage = "NONE"
  /\ event_handlers = [e \in Events |-> <<>>]
  /\ NewGameState
  /\ wire = NoWire

NextHandshake ==
  \/ FacadeCall("c1", "version")
  \/ \E c \in Callers : FacadeCall(c, "start_game")
  \/ \E c \in Callers : Login(c)
  \/ \E c \in Callers : FacadeResume(c)
  \/ \E c \in Callers : WaitForResume(c)
  \/ \E c \in Callers : RejectResume(c)
  \/ \E c \in Callers : TimerFires(c)
  \/ \E k \in Kinds : RxFrame(1, k)
  \/ \E k \in {"ClientVersion", "StartGame"}, r \in Results : RxReply(1, k, r)
  \/ RxReadFails(1)
  \/ RxCancelled(1)
  \/ KaCancelled(1)
  \/ \E how \in {"eof", "reset"} : PeerClose(1, how)

SpecHandshake == InitHandshake /\ [][NextHandshake]_vars

\* Select: a caller runs select_character() and the server answers the
\* C_StartGame it got with S_StartGame, and an S_StartGame(result=4) with
\* S_UserInformation.
NextSelect ==
  \/ \E c \in Callers : FacadeCall(c, "start_game")
  \/ \E c \in Callers : FacadeResume(c)
  \/ \E c \in Callers : TimerFires(c)
  \/ \E c \in Callers : CancelCall(c)
  \/ \E r \in Results : stream[1].written > 0 /\ stage # "GAME" /\ RxReply(1, "StartGame", r)
  \/ stage = "GAME" /\ RxReply(1, "UserInformation", 4)
  \/ RxReadFails(1)
  \/ \E how \in {"eof", "reset"} : PeerClose(1, how)

SpecSelect == InitHandshake /\ [][NextSelect]_vars

\* ---------------------------------------------------------------- world state
\* The reducers of state.py.  Each is a plain function the receive loop calls
\* from its kind-specific handler list, so each runs from its first line to its
\* return, or to the line that raises, without any other code in between; what
\* it raises is caught at connection.py:146-152 and the loop reads on.
clientVars == <<connVars, regVars, waitVars, rx, ka, stream, nconn, nframes, log, drv,
                watch, stage, event_handlers>>

\* The receive loop can read one more message.
CanFold == wlast.n < MaxMsgs /\ connected /\ rx[1].pc = "read"

\* wlast: the message folded last; kind: the kind of the appear message that
\* was the last one for the same id, "none" if another id or its removal came
\* in between (for gained_item: whether a None slot or a new slot took it).
\* held: the tables that held the id when the message came in.
HeldBy(id) ==
  IF id \notin ObjIds THEN {}
  ELSE {t \in {"player"} : players[id].present}
       \cup {t \in {"monster"} : monsters[id].present}
       \cup {t \in {"npc"} : npcs[id].present}
       \cup {t \in {"item"} : ground_items[id].present}

Folded(type, id, kind, raised) ==
  wlast' = [type |-> type, id |-> id, kind |-> kind, n |-> wlast.n + 1, raised |-> raised,
            held |-> HeldBy(id)]

KindFor(id) == IF wlast.id = id THEN wlast.kind ELSE "none"

\* on_object_player, on_object_monster, on_object_npc, on_object_item,
\* on_object_gold: d is pkt.dead, which only the first two carry
OnObjectAppear(kind, id, loc, d) ==
  /\ CanFold
  /\ kind \in {"npc", "item", "gold"} => ~d
  /\ players' = IF kind = "player" THEN [players EXCEPT ![id] = Entry(loc, d)] ELSE players
  /\ monsters' = IF kind = "monster" THEN [monsters EXCEPT ![id] = Entry(loc, d)]
                                     ELSE monsters
  /\ npcs' = IF kind = "npc" THEN [npcs EXCEPT ![id] = Entry(loc, FALSE)] ELSE npcs
  /\ ground_items' = IF kind \in {"item", "gold"}
                       THEN [ground_items EXCEPT ![id] = Entry(loc, FALSE)]
                       ELSE ground_items
  /\ Folded("appear", id, kind, FALSE)
  /\ UNCHANGED <<map, char, inventory, clientVars, wire>>

\* (mutant) a search that starts with the monster table
UpdateObjectPos_MonstersFirst(id) ==
  IF monsters[id].present THEN "monster"
  ELSE IF players[id].present THEN "player"
  ELSE IF npcs[id].present THEN "npc"
  ELSE "none"

\* _update_object_pos: the table whose entry is written, the first of players,
\* monsters, npcs that holds the id
UpdateObjectPos(id) ==
  IF players[id].present THEN "player"
  ELSE IF monsters[id].present THEN "monster"
  ELSE IF npcs[id].present THEN "npc"
  ELSE "none"

\* (mutant) an update without the return of line 248: every table searched
\* that holds the id is written
OnObjectWalk_AllMatches(id, loc) ==
  /\ CanFold
  /\ players' = IF players[id].present
                  THEN [players EXCEPT ![id].location = loc] ELSE players
  /\ monsters' = IF monsters[id].present
                   THEN [monsters EXCEPT ![id].location = loc] ELSE monsters
  /\ npcs' = IF npcs[id].present
               THEN [npcs EXCEPT ![id].location = loc] ELSE npcs
  /\ Folded("walk", id, KindFor(id), FALSE)
  /\ UNCHANGED <<ground_items, map, char, inventory, clientVars, wire>>

\* on_object_turn, on_object_walk, on_object_run (location and direction are
\* written together; location stands for both)
OnObjectWalk(id, loc) ==
  /\ CanFold
  /\ players' = IF UpdateObjectPos(id) = "player"
                  THEN [players EXCEPT ![id].location = loc] ELSE players
  /\ monsters' = IF UpdateObjectPos(id) = "monster"
                   THEN [monsters EXCEPT ![id].location = loc] ELSE monsters
  /\ npcs' = IF UpdateObjectPos(id) = "npc"
               THEN [npcs EXCEPT ![id].location = loc] ELSE npcs
  /\ Folded("walk", id, KindFor(id), FALSE)
  /\ UNCHANGED <<ground_items, map, char, inventory, clientVars, wire>>

\* (mutant) a reducer that also raises the character's own dead flag
OnObjectDied_SetsGlobal(id, loc) ==
  /\ CanFold
  /\ players' = IF players[id].present
                  THEN [players EXCEPT ![id].dead = TRUE, ![id].location = loc]
                  ELSE players
  /\ monsters' = IF ~players[id].present /\ monsters[id].present
                   THEN [monsters EXCEPT ![id].dead = TRUE, ![id].location = loc]
                   ELSE monsters
  /\ char' = [char EXCEPT !.dead = TRUE]
  /\ Folded("died", id, KindFor(id), FALSE)
  /\ UNCHANGED <<npcs, ground_items, map, inventory, clientVars, wire>>

\* on_object_died: the first of players, monsters that holds the id
OnObjectDied(id, loc) ==
  /\ CanFold
  /\ players' = IF players[id].present
                  THEN [players EXCEPT ![id].dead = TRUE, ![id].location = loc]
                  ELSE players
  /\ monsters' = IF ~players[id].present /\ monsters[id].present
                   THEN [monsters EXCEPT ![id].dead = TRUE, ![id].location = loc]
                   ELSE monsters
  /\ Folded("died", id, KindFor(id), FALSE)
  /\ UNCHANGED <<npcs, ground_items, map, char, inventory, clientVars, wire>>

\* (mutant) a removal that stops at the first table holding the id
OnObjectRemove_FirstOnly(id) ==
  /\ CanFold
  /\ players' = [players EXCEPT ![id] = Absent]
  /\ monsters' = IF players[id].present THEN monsters
                                        ELSE [monsters EXCEPT ![id] = Absent]
  /\ npcs' = IF players[id].present \/ monsters[id].present
               THEN npcs ELSE [npcs EXCEPT ![id] = Absent]
  /\ ground_items' = IF players[id].present \/ monsters[id].present \/ npcs[id].present
                       THEN ground_items ELSE [ground_items EXCEPT ![id] = Absent]
  /\ Folded("remove", id, "none", FALSE)
  /\ UNCHANGED <<map, char, inventory, clientVars, wire>>

\* on_object_remove
OnObjectRemove(id) ==
  /\ CanFold
  /\ players' = [players EXCEPT ![id] = Absent]
  /\ monsters' = [monsters EXCEPT ![id] = Absent]
  /\ npcs' = [npcs EXCEPT ![id] = Absent]
  /\ ground_items' = [ground_items EXCEPT ![id] = Absent]
  /\ Folded("remove", id, "none", FALSE)
  /\ UNCHANGED <<map, char, inventory, clientVars, wire>>

\* on_map_changed: lines 286-289 write the map identity and the location,
\* line 290 raises ValueError for a byte that is no MirDirection, lines 292-295
\* clear the four tables
OnMapChanged(m, loc, dir) ==
  /\ CanFold
  /\ map' = [index |-> m, file |-> m, title |-> m]
  /\ IF dir \in MirDirections
       THEN /\ char' = [char EXCEPT !.location = loc, !.direction = dir]
            /\ players' = [o \in ObjIds |-> Absent]
            /\ monsters' = [o \in ObjIds |-> Absent]
            /\ npcs' = [o \in ObjIds |-> Absent]
            /\ ground_items' = [o \in ObjIds |-> Absent]
       ELSE /\ char' = [char EXCEPT !.location = loc]
            /\ UNCHANGED <<players, monsters, npcs, ground_items>>
  /\ Folded("map_changed", 0, "none", dir \notin MirDirections)
  /\ UNCHANGED <<inventory, clientVars, wire>>

HasNone(inv) == \E i \in 1..Len(inv) : inv[i] = None
FirstNone(inv) == CHOOSE i \in 1..Len(inv) : inv[i] = None /\ \A j \in 1..(i - 1) : inv[j] # None

\* (mutant) a reducer that always appends
GainedItemPlace_Append(inv, item) == Append(inv, item)

\* on_gained_item, lines 172-177: the first None slot, else a new last slot
GainedItemPlace(inv, item) ==
  IF HasNone(inv) THEN [inv EXCEPT ![FirstNone(inv)] = item] ELSE Append(inv, item)

\* on_gained_item (the decoded item is a non-empty dict: line 170 is true)
OnGainedItem(item) ==
  /\ CanFold
  /\ inventory' = GainedItemPlace(inventory, item)
  /\ Folded("gained_item", item.unique_id,
            IF HasNone(inventory) THEN "slot" ELSE "append", FALSE)
  /\ UNCHANGED <<players, monsters, npcs, ground_items, map, char, clientVars, wire>>

Holds(inv, i, uid) == inv[i] # None /\ inv[i].unique_id = uid

\* (mutant) a removal that deletes the slot from the list, so that the items
\* behind it move up
OnDeleteItem_Compacts(uid, cnt) ==
  /\ CanFold
  /\ inventory' =
       IF \E i \in 1..Len(inventory) : Holds(inventory, i, uid)
         THEN LET i == CHOOSE i \in 1..Len(inventory) :
                         /\ Holds(inventory, i, uid)
                         /\ \A j \in 1..(i - 1) : ~Holds(inventory, j, uid)
              IN IF cnt >= inventory[i].count
                   THEN SubSeq(inventory, 1, i - 1) \o SubSeq(inventory, i + 1, Len(inventory))
                   ELSE [inventory EXCEPT ![i].count = @ - cnt]
         ELSE inventory
  /\ Folded("delete_item", uid, "none", FALSE)
  /\ UNCHANGED <<players, monsters, npcs, ground_items, map, char, clientVars, wire>>

\* on_delete_item: the first slot holding the unique_id is emptied when the
\* count to delete covers it, else its count is lowered
OnDeleteItem(uid, cnt) ==
  /\ CanFold
  /\ inventory' =
       IF \E i \in 1..Len(inventory) : Holds(inventory, i, uid)
         THEN LET i == CHOOSE i \in 1..Len(inventory) :
                         /\ Holds(inventory, i, uid)
                         /\ \A j \in 1..(i - 1) : ~Holds(inventory, j, uid)
              IN IF cnt >= inventory[i].count
                   THEN [inventory EXCEPT ![i] = None]
                   ELSE [inventory EXCEPT ![i].count = @ - cnt]
         ELSE inventory
  /\ Folded("delete_item", uid, "none", FALSE)
  /\ UNCHANGED <<players, monsters, npcs, ground_items, map, char, clientVars, wire>>

\* World: the connected client folds object and map messages.
NextWorld ==
  \/ \E kind \in EntityKinds, id \in ObjIds, loc \in Locs, d \in BOOLEAN :
       OnObjectAppear(kind, id, loc, d)
  \/ \E id \in ObjIds, loc \in Locs : OnObjectWalk(id, loc)
  \/ \E id \in ObjIds, loc \in Locs : OnObjectDied(id, loc)
  \/ \E id \in ObjIds : OnObjectRemove(id)
  \/ \E m \in Maps, loc \in Locs, dir \in Dirs : OnMapChanged(m, loc, dir)

SpecWorld == InitEvents /\ [][NextWorld]_vars

\* on_map_info: the three fields of the map identity are written, nothing else
OnMapInfo(m) ==
  /\ CanFold
  /\ map' = [index |-> m, file |-> m, title |-> m]
  /\ Folded("map_info", 0, "none", FALSE)
  /\ UNCHANGED <<players, monsters, npcs, ground_items, char, inventory, clientVars, wire>>

\* Maps: the connected client folds object messages and both messages that
\* carry a map identity.
NextMaps ==
  \/ NextWorld
  \/ \E m \in Maps : OnMapInfo(m)

SpecMaps == InitEvents /\ [][NextMaps]_vars

\* on_object_health: the first of players, monsters that holds the id gets
\* the percentage in its extras
OnObjectHealth(id, pct) ==
  /\ CanFold
  /\ players' = IF players[id].present
                  THEN [players EXCEPT ![id].health = pct] ELSE players
  /\ monsters' = IF ~players[id].present /\ monsters[id].present
                   THEN [monsters EXCEPT ![id].health = pct] ELSE monsters
  /\ Folded("health", id, KindFor(id), FALSE)
  /\ UNCHANGED <<npcs, ground_items, map, char, inventory, clientVars, wire>>

\* on_add_buff (the decoded buff is a non-empty dict)
OnAddBuff(ty) ==
  /\ CanFold
  /\ char' = [char EXCEPT !.buffs = @ \cup {ty}]
  /\ Folded("add_buff", 0, "none", FALSE)
  /\ UNCHANGED <<players, monsters, npcs, ground_items, map, inventory, clientVars, wire>>

\* (mutant) a removal by del state.buffs[type], which raises KeyError for a
\* type that is not there
OnRemoveBuff_Del(ty) ==
  /\ CanFold
  /\ char' = [char EXCEPT !.buffs = @ \ {ty}]
  /\ Folded("remove_buff", 0, IF ty \in char.buffs THEN "held" ELSE "absent",
            ty \notin char.buffs)
  /\ UNCHANGED <<players, monsters, npcs, ground_items, map, inventory, clientVars, wire>>

\* on_remove_buff: pop(type, None)
OnRemoveBuff(ty) ==
  /\ CanFold
  /\ char' = [char EXCEPT !.buffs = @ \ {ty}]
  /\ Folded("remove_buff", 0, IF ty \in char.buffs THEN "held" ELSE "absent", FALSE)
  /\ UNCHANGED <<players, monsters, npcs, ground_items, map, inventory, clientVars, wire>>

\* Reducers: the connected client folds object, item and buff messages.
NextReducers ==
  \/ \E kind \in EntityKinds, id \in ObjIds, loc \in Locs, d \in BOOLEAN :
       OnObjectAppear(kind, id, loc, d)
  \/ \E id \in ObjIds, loc \in Locs : OnObjectWalk(id, loc)
  \/ \E id \in ObjIds, loc \in Locs : OnObjectDied(id, loc)
  \/ \E id \in ObjIds : OnObjectHealth(id, 50)
  \/ \E id \in ObjIds : OnObjectRemove(id)
  \/ \E item \in Items : OnGainedItem(item)
  \/ \E uid \in {1, 2}, cnt \in {1, 2} : OnDeleteItem(uid, cnt)
  \/ \E ty \in {1, 2} : OnAddBuff(ty)
  \/ \E ty \in {1, 2} : OnRemoveBuff(ty)

SpecReducers == InitEvents /\ [][NextReducers]_vars

\* on_death: line 144 sets the flag, line 145 the location, line 146 raises
\* ValueError for a byte that is no MirDirection
OnDeath(loc, dir) ==
  /\ CanFold
  /\ char' = IF dir \in MirDirections
               THEN [char EXCEPT !.dead = TRUE, !.location = loc, !.direction = dir]
               ELSE [char EXCEPT !.dead = TRUE, !.location = loc]
  /\ Folded("death", 0, "none", dir \notin MirDirections)
  /\ UNCHANGED <<players, monsters, npcs, ground_items, map, inventory, clientVars, wire>>

\* on_gain_experience
OnGainExperience(amount) ==
  /\ CanFold
  /\ char' = [char EXCEPT !.experience = @ + amount]
  /\ Folded("gain_experience", 0, "none", FALSE)
  /\ UNCHANGED <<players, monsters, npcs, ground_items, map, inventory, clientVars, wire>>

\* on_gained_gold
OnGainedGold(gold) ==
  /\ CanFold
  /\ char' = [char EXCEPT !.gold = @ + gold]
  /\ Folded("gained_gold", 0, "none", FALSE)
  /\ UNCHANGED <<players, monsters, npcs, ground_items, map, inventory, clientVars, wire>>

\* (mutant) a subtraction without the max(0, ...)
LoseGoldTo_Unclamped(held, gold) == held - gold

\* on_lose_gold, line 167: max(0, state.gold - pkt.gold)
LoseGoldTo(held, gold) == IF held - gold > 0 THEN held - gold ELSE 0

\* on_lose_gold
OnLoseGold(gold) ==
  /\ CanFold
  /\ char' = [char EXCEPT !.gold = LoseGoldTo(@, gold)]
  /\ Folded("lose_gold", 0, IF gold > char.gold THEN "clamped" ELSE "none", FALSE)
  /\ UNCHANGED <<players, monsters, npcs, ground_items, map, inventory, clientVars, wire>>

\* Character: the connected client folds the messages about its own character
\* next to those about the entities around it.
NextCharacter ==
  \/ \E kind \in EntityKinds, id \in ObjIds, loc \in Locs, d \in BOOLEAN :
       OnObjectAppear(kind, id, loc, d)
  \/ \E id \in ObjIds, loc \in Locs : OnObjectDied(id, loc)
  \/ \E loc \in Locs, dir \in Dirs : OnDeath(loc, dir)
  \/ \E amount \in Amounts : OnGainExperience(amount)
  \/ \E gold \in Amounts : OnGainedGold(gold)
  \/ \E gold \in Amounts : OnLoseGold(gold)

SpecCharacter == InitEvents /\ [][NextCharacter]_vars

\* Inventory: the connected client folds item messages.
NextInventory ==
  \/ \E item \in Items : OnGainedItem(item)
  \/ \E uid \in {1, 2}, cnt \in {1, 2} : OnDeleteItem(uid, cnt)

SpecInventory == InitEvents /\ [][NextInventory]_vars

\* ---------------------------------------------------------------- wire
\* struct.pack / struct.unpack, "<H" and "<h": two bytes, low byte first, the
\* signed value in two's complement.  pack raises struct.error outside the
\* format's range.
U16Max == 65535
PackU16(n) == <<n % 256, n \div 256>>
UnpackU16(b) == b[1] + 256 * b[2]
PackI16(k) == PackU16(IF k < 0 THEN k + 65536 ELSE k)
UnpackI16(b) == LET u == UnpackU16(b) IN IF u >= 32768 THEN u - 65536 ELSE u

\* (mutant) a total length that counts kind and payload but not itself
ToBytes_LenExcludesItself(kind, payload) ==
  IF 2 + Len(payload) > U16Max \/ kind < -32768 \/ kind > 32767
    THEN "struct.error"
    ELSE PackU16(2 + Len(payload)) \o PackI16(kind) \o payload

\* Packet.to_bytes, lines 48-51 (payload: what write_packet produced)
ToBytes(kind, payload) ==
  IF 4 + Len(payload) > U16Max \/ kind < -32768 \/ kind > 32767
    THEN "struct.error"
    ELSE PackU16(4 + Len(payload)) \o PackI16(kind) \o payload

\* _receive_loop, lines 109-121, on the bytes the stream holds: the header is
\* read, then the rest of the frame, then kind and payload are taken apart;
\* rest: the bytes the next iteration starts with.
ReadFrame(bytes) ==
  IF Len(bytes) < 2 THEN [outcome |-> "incomplete"]
  ELSE LET total_length == UnpackU16(SubSeq(bytes, 1, 2)) IN
       IF total_length < 4
         THEN [outcome |-> "discard", rest |-> SubSeq(bytes, 3, Len(bytes))]
       ELSE LET remaining == total_length - 2 IN
            IF Len(bytes) - 2 < remaining THEN [outcome |-> "incomplete"]
            ELSE LET body == SubSeq(bytes, 3, 2 + remaining) IN
                 [outcome |-> "frame",
                  kind |-> UnpackI16(SubSeq(body, 1, 2)),
                  payload |-> SubSeq(body, 3, Len(body)),
                  rest |-> SubSeq(bytes, 3 + remaining, Len(bytes))]

\* Packet ids, payload lengths and payload bytes of the frames of the model;
\* what follows a frame in the stream.
WireKinds == {-32768, -1, 0, 1, 258, 32767}
PayloadLens == {0, 1, 2, 252, 65531, 65532}
Payload(n, b) == [i \in 1..n |-> (7 * i + b) % 256]
Tails == {<<>>, <<7, 0, 1>>}

\* send(): the packet is serialised and written
Pack(kind, payload, tail) ==
  /\ wire.op = "none"
  /\ wire' = [op |-> "packed", kind |-> kind, payload |-> payload, tail |-> tail,
              bytes |-> ToBytes(kind, payload)]
  /\ UNCHANGED <<clientVars, worldVars>>

\* the peer's receive loop, written as this one, reads the bytes
Unpack ==
  /\ wire.op = "packed"
  /\ wire.bytes # "struct.error"
  /\ wire' = [op |-> "read", kind |-> wire.kind, payload |-> wire.payload,
              tail |-> wire.tail, bytes |-> wire.bytes,
              out |-> ReadFrame(wire.bytes \o wire.tail)]
  /\ UNCHANGED <<clientVars, worldVars>>

\* Python integers are unbounded; a number is kept as hi * 65536 + lo.
Wide(hi, lo) == [hi |-> hi, lo |-> lo]
Low7(v) == v.lo % 128

\* (mutant) an encoder that shifts by 8
Shr7_By8(v) == Wide(v.hi \div 256, (v.hi % 256) * 256 + v.lo \div 256)

\* value >>= 7
Shr7(v) == Wide(v.hi \div 128, (v.hi % 128) * 512 + v.lo \div 128)

\* (b & 0x7F) << shift
Shl(g, shift) ==
  IF shift >= 16 THEN Wide(g * 2^(shift - 16), 0)
  ELSE Wide((g * 2^shift) \div 65536, (g * 2^shift) % 65536)

\* result |= x, for an x whose bits lie above those of result
OrInto(r, x) == Wide(r.hi + x.hi + (r.lo + x.lo) \div 65536, (r.lo + x.lo) % 65536)

RECURSIVE Encode7BitInt(_)
\* BinaryWriter._encode_7bit_int
Encode7BitInt(v) ==
  IF v.hi > 0 \/ v.lo >= 128
    THEN <<Low7(v) + 128>> \o Encode7BitInt(Shr7(v))
    ELSE <<Low7(v)>>

RECURSIVE Read7BitInt(_, _, _, _)
\* BinaryReader._read_7bit_int from position i of the buffer on; used: the
\* position of the last byte read
Read7BitInt(bytes, i, shift, result) ==
  IF i > Len(bytes) THEN [value |-> "struct.error", used |-> i - 1]
  ELSE LET b == bytes[i]
           r == OrInto(result, Shl(b % 128, shift))
       IN IF b < 128 THEN [value |-> r, used |-> i]
          ELSE Read7BitInt(bytes, i + 1, shift + 7, r)

\* The numbers, the bytes following an encoded number, and the byte sequences
\* of the model.
WideSamples ==
  {Wide(hi, lo) : hi \in {0, 1, 31, 32, 4095, 4096, 65535},
                  lo \in {0, 1, 127, 128, 16383, 16384, 65535}}
VarTails == {<<>>, <<200, 5>>}
SampleBytes == {0, 1, 127, 128, 129, 255}
ByteSeqs == UNION {[1..n -> SampleBytes] : n \in 1..3}
\* a byte sequence the encoder can produce: continuation bits on all bytes
\* but the last, no empty last group
Canonical(b) ==
  /\ b[Len(b)] < 128
  /\ \A i \in 1..(Len(b) - 1) : b[i] >= 128
  /\ Len(b) > 1 => b[Len(b)] # 0

\* write_string: the length is encoded
Encode(n, tail) ==
  /\ wire.op = "none"
  /\ wire' = [op |-> "encoded", n |-> n, tail |-> tail, bytes |-> Encode7BitInt(n)]
  /\ UNCHANGED <<clientVars, worldVars>>

\* read_string: the length is decoded from the bytes written
Decode ==
  /\ wire.op = "encoded"
  /\ wire' = [op |-> "decoded", n |-> wire.n, tail |-> wire.tail, bytes |-> wire.bytes,
              out |-> Read7BitInt(wire.bytes \o wire.tail, 1, 0, Wide(0, 0))]
  /\ UNCHANGED <<clientVars, worldVars>>

\* a length prefix somebody else wrote is decoded and encoded again
Reencode(b) ==
  /\ wire.op = "none"
  /\ LET v == Read7BitInt(b, 1, 0, Wide(0, 0)).value IN
     wire' = [op |-> "reencoded", bytes |-> b, value |-> v, again |-> Encode7BitInt(v)]
  /\ UNCHANGED <<clientVars, worldVars>>

NextWire ==
  \/ \E kind \in WireKinds, n \in PayloadLens, b \in {0, 255}, tail \in Tails :
       Pack(kind, Payload(n, b), tail)
  \/ Unpack
  \/ \E n \in WideSamples, tail \in VarTails : Encode(n, tail)
  \/ Decode
  \/ \E b \in {x \in ByteSeqs : Canonical(x)} : Reencode(b)

SpecWire == InitDispatch /\ [][NextWire]_vars

\* ---------------------------------------------------------------- claims
Waiting(c) == call[c].pc = "waiting"
SeqSet(s) == {s[i] : i \in 1..Len(s)}
AllIdle == \A c \in Callers : call[c].pc = "idle"
NoWaiters == \A k \in Kinds : waiters[k] = <<>>

\* C1: waiter isolation.  Two _wait_for calls pending on the same kind are
\* fulfilled by different messages: no message fulfils a future of each.
C1_WaiterIsolation ==
  \A c1, c2 \in Callers :
    (c1 # c2 /\ Waiting(c1) /\ Waiting(c2)) =>
      \A f1 \in FutsOf(c1), f2 \in FutsOf(c2) :
        (fut[f1].state = "done" /\ fut[f2].state = "done") => fut[f1].msg # fut[f2].msg

\* C2: timeout cleanup.  Registering adds the call's own fresh futures and
\* nothing else, a call that ends in TimeoutError takes exactly its own
\* futures out of every list (so the lists are as before the call), and a
\* future of a pending call is done only by a message of its kind dispatched
\* after the call registered it.
C2_TimeoutCleanup ==
  /\ [][\A c \in Callers :
          /\ (~Waiting(c) /\ Waiting(c)') =>
               \A k \in Kinds :
                 /\ SelectSeq(waiters'[k], LAMBDA f : f \notin FutsOf(c)') = waiters[k]
                 /\ \A f \in FutsOf(c)' : f > nfut /\ fut'[f].state = "pending"
          /\ (Waiting(c) /\ ~Waiting(c)' /\ call'[c].res.status = "timeout") =>
               \A k \in Kinds :
                 /\ waiters'[k] = SelectSeq(waiters[k], LAMBDA f : f \notin FutsOf(c))
                 /\ SeqSet(waiters'[k]) \cap FutsOf(c) = {}]_vars
  /\ [](\A c \in Callers :
          Waiting(c) =>
            \A i \in 1..Len(call[c].futs) :
              fut[call[c].futs[i]].state = "done" =>
                /\ fut[call[c].futs[i]].msg.kind = call[c].ids[i]
                /\ fut[call[c].futs[i]].msg.seq > call[c].reg)

\* C2 witness: c1's wait with an alternate timed out, and c2 then waits on the
\* same kind with a future that is still pending.
C2_Witness ==
  /\ call["c1"].res.status = "timeout"
  /\ call["c1"].pc = "idle"
  /\ Len(call["c1"].ids) = 2
  /\ Waiting("c2")
  /\ call["c2"].ids[1] = call["c1"].ids[1]
  /\ call["c2"].futs[1] > call["c1"].futs[2]
  /\ fut[call["c2"].futs[1]].state = "pending"
  /\ nframes > call["c2"].reg

\* C3: every future in the waiter map belongs to a _wait_for call in progress;
\* with no call in progress the map holds no waiter.
C3_NoResidualWaiters ==
  \A k \in Kinds : \A i \in 1..Len(waiters[k]) :
    \E c \in Callers : Waiting(c) /\ waiters[k][i] \in FutsOf(c)

\* C3 witness: a login() whose task was cancelled while a reply was already
\* stored; no call is in progress and the map is empty.
C3_Witness ==
  /\ call["c1"].op = "login"
  /\ call["c1"].res.status = "cancelled"
  /\ \E f \in FutsOf("c1") : fut[f].state = "done"
  /\ \E f \in FutsOf("c1") : fut[f].state = "pending"
  /\ AllIdle
  /\ NoWaiters

\* C4: what _wait_for returns is a message of one of the call's kinds,
\* dispatched after the call registered; login() fails exactly on a Login
\* message and succeeds exactly on a LoginSuccess message; a call that times
\* out (or is cancelled) returns no message.
C4_ReturnsMatchingMessage ==
  \A c \in Callers :
    LET r == call[c].res IN
    /\ r.status \in {"returned", "login_ok", "login_failed"} =>
         /\ r.msg.kind \in SeqSet(call[c].ids)
         /\ r.msg.seq > call[c].reg
         /\ r.msg.seq <= nframes
    /\ r.status = "login_failed" <=>
         (call[c].op = "login" /\ r.msg.kind = "Login")
    /\ r.status = "login_ok" <=>
         (call[c].op = "login" /\ r.msg.kind = "LoginSuccess")
    /\ r.status = "login_ok" => stage = "SELECT"
    /\ r.status \notin {"returned", "login_ok", "login_failed"} => r.msg = NoMsg

\* C4 witness: a login() rejected by an S_Login message.
C4_Witness ==
  /\ call["c1"].res.status = "login_failed"
  /\ call["c1"].res.msg.kind = "Login"
  /\ call["c1"].res.msg.seq = 2
  /\ call["c1"].reg = 1

\* C5: disconnect() and MirClient.disconnect() never raise, and when they
\* have returned the connection is not connected.
C5_DisconnectIdempotent ==
  /\ drv.last # "disconnect_raised"
  /\ (drv.pc = "idle" /\ drv.last \in {"disconnected", "client_disconnected"}) =>
       ~connected

\* C5 witness: two disconnect() calls in a row on a connection whose receive
\* loop had ended on the peer's close.
C5_Witness ==
  /\ drv.twice
  /\ drv.last = "disconnected"
  /\ stream[1].status = "eof"
  /\ rx[1].pc = "done"
  /\ nconn = 1
  /\ ~connected

\* C6: whenever a receive task ends, the connection is marked disconnected,
\* the event is set and no caller of wait_disconnect is left blocked.
C6_LoopEndDisconnects ==
  [][\A g \in Gens :
       (rx[g].pc \in {"new", "read", "handler"} /\ TaskDone(rx'[g])) =>
         /\ ~connected'
         /\ disconnect_event'
         /\ \A w \in Watchers : watch'[w] # "blocked"]_vars

\* C6 witness: the loop ended on the peer's close, no disconnect() was called,
\* and both callers of wait_disconnect were woken.
C6_Witness ==
  /\ rx[1].pc = "done"
  /\ stream[1].status = "eof"
  /\ drv.last = "connected"
  /\ nconn = 1
  /\ \A w \in Watchers : watch[w] = "woken"
  /\ ~connected

\* C7: after the first connect the event is set exactly when the connection
\* is not connected, so wait_disconnect blocks only while connected.
C7_EventIffDisconnected ==
  /\ nconn > 0 => (disconnect_event <=> ~connected)
  /\ \A w \in Watchers : watch[w] = "blocked" => ~disconnect_event

\* C7 witness: connected again after a disconnect(), a caller blocked.
C7_Witness ==
  /\ nconn = 2
  /\ stream[1].closed
  /\ connected
  /\ ~disconnect_event
  /\ watch["w1"] = "blocked"
  /\ watch["w2"] = "idle"

\* C8: while the connection is not connected no step writes to a stream, no
\* send succeeds, and a send that fails with "not connected" changes nothing
\* of the connection.
C8_SendNotConnected ==
  [][(~connected \/ writer = 0) =>
       /\ \A s \in Gens : stream'[s].written = stream[s].written
       /\ (drv' # drv /\ drv.pc = "idle" /\ drv'.pc = "idle") =>
            drv'.last \notin {"sent", "send_failed"}
       /\ (drv' # drv /\ drv.pc = "idle" /\ drv'.pc = "idle"
              /\ drv'.last = "not_connected") =>
            UNCHANGED <<connVars, stream, rx, ka>>]_vars

\* C8 witness: a send after the receive loop ended on the peer's close and
\* before any disconnect().
C8_Witness ==
  /\ drv.last = "not_connected"
  /\ writer = 1
  /\ ~connected
  /\ rx[1].pc = "done"
  /\ stream[1].written = 0

\* C9: a handler that raises does not end the delivery: the next handler of
\* the message is invoked in the same run, and unless the loop condition or
\* the next read ends it, the loop is suspended again with connected unchanged.
C9_HandlerErrorsCaught ==
  [][\A j \in (Len(log) + 1)..Len(log') :
       log'[j].ev \in {"raise", "coro_raise"} =>
         /\ log'[j].pos < log'[j].n =>
              /\ j < Len(log')
              /\ log'[j + 1].g = log'[j].g
              /\ log'[j + 1].seq = log'[j].seq
              /\ log'[j + 1].pos = log'[j].pos + 1
         /\ (connected /\ reader # 0 /\ ~ReaderBusy(reader, log'[j].g)) =>
              /\ connected'
              /\ rx'[log'[j].g].pc \in {"read", "handler"}]_vars

\* C9 witness: the any-packet handler raised, the kind's handler ran after
\* it, and the loop is reading again, connected.
C9_Witness ==
  /\ Len(log) >= 2
  /\ log[1].ev = "raise" /\ log[1].pos = 0
  /\ log[2].seq = log[1].seq /\ log[2].pos = 1
  /\ rx[1].pc = "read"
  /\ connected

\* C10: delivery order.  Invocations are ordered by frame, then by handler
\* position, and a delivery suspended in a coroutine handler is that of the
\* last frame read (no frame is read before the handlers have completed).
C10_DeliveryOrder ==
  /\ \A i, j \in 1..Len(log) :
       i < j => \/ log[i].seq < log[j].seq
                \/ (log[i].seq = log[j].seq /\ log[i].pos <= log[j].pos)
  /\ \A g \in Gens : rx[g].pc = "handler" => rx[g].seq = nframes

\* The callbacks passed to on_any_packet so far, by registration number: the
\* registrations that went to no per-kind list and to no event list.
AnyRegs ==
  {r \in 1..nreg :
     /\ \A k \in Kinds : \A i \in 1..Len(handlers[k]) : handlers[k][i].reg # r
     /\ \A e \in Events : \A i \in 1..Len(event_handlers[e]) : event_handlers[e][i].reg # r}

\* C11: every callback registered with on_any_packet is invoked for every
\* decoded message, in registration order: when an any-packet callback is
\* invoked for a message, every any-packet callback registered before it has
\* been invoked for that message already.
C11_AnyPacketCallbacksAllInvoked ==
  [][\A j \in (Len(log) + 1)..Len(log') :
       (log'[j].pos = 0 /\ log'[j].reg # 0) =>
         \A r \in AnyRegs :
           r < log'[j].reg =>
             \E i \in 1..(j - 1) : log'[i].seq = log'[j].seq /\ log'[i].reg = r]_vars

\* C12: a callback registered with MirClient.on for an event is invoked when
\* the corresponding message is dispatched; for the event "any" that is every
\* dispatched message.
C12_EventCallbacksInvoked ==
  [][\A j \in (Len(log) + 1)..Len(log') :
       log'[j].pos = 0 =>
         \A i \in 1..Len(event_handlers["any"]) :
           \E h \in (Len(log) + 1)..Len(log') :
             log'[h].seq = log'[j].seq /\ log'[h].reg = event_handlers["any"][i].reg]_vars

RxLive(g) == rx[g].pc \in {"new", "read", "handler"}
KaLive(g) == ka[g].pc \in {"new", "sleep"}
StreamHeld(n) == stream[n].status # "none" /\ ~stream[n].closed

\* C14: a MirConnection holds at most one stream it has opened and not closed,
\* and has at most one receive loop and at most one keepalive loop running.
C14_OneStreamOneLoopPair ==
  /\ Cardinality({n \in Gens : StreamHeld(n)}) <= 1
  /\ Cardinality({g \in Gens : RxLive(g)}) <= 1
  /\ Cardinality({g \in Gens : KaLive(g)}) <= 1

C15_LoopEndReleases ==
  \A g \in Gens :
    (/\ rx[g].pc = "done" /\ stream[g].status \in {"eof", "reset"}
     /\ drv.pc = "idle" /\ drv.last = "connected"
     /\ \A h \in Gens : ~RxLive(h) /\ ~KaLive(h))
    => (~connected /\ disconnect_event /\ stream[g].closed)

\* What a step that drops a frame leaves alone: the handler tables, the record
\* of invocations, the futures and the waiter map, the stage and the world.
DropLeaves ==
  /\ log' = log /\ fut' = fut /\ waiters' = waiters /\ stage' = stage
  /\ handlers' = handlers /\ default_handler' = default_handler
  /\ worldVars' = worldVars

\* The loop of task g is suspended in the read of the next header of the stream
\* it was reading.
ReadsOn(g) ==
  /\ rx'[g].pc = "read" /\ rx'[g].rd = rx[g].rd
  /\ stream' = stream /\ disconnect_event' = disconnect_event

\* C19: a header declaring a total length below 4, read while connected, is
\* discarded: connected stays True, no handler is invoked and no state
\* changes, and the loop goes on to read the next 2 bytes as a header.
C19_ShortFrameDiscarded ==
  [][\A g \in Gens :
       (RxFrame(g, "short") /\ connected) => (connected' /\ DropLeaves /\ ReadsOn(g))]_vars

\* C19 witness: one frame was read and dropped while a caller waits; nothing
\* was invoked, the caller still waits, the loop reads on.
C19_Witness ==
  /\ nframes = 1 /\ log = <<>> /\ connected /\ rx[1].pc = "read"
  /\ stream[1].status = "open"
  /\ \E c \in Callers : Waiting(c)
  /\ \E f \in FutIds : fut[f].state = "pending"

\* C20: a frame of a kind absent from the catalogue, or one whose payload fails
\* to decode, read while connected, is dropped: no handler is invoked, the
\* world and the waiter map are unchanged, connected stays True; and the frame
\* that follows dropped frames is delivered to the any-packet handler and to
\* the waiters of its kind.
C20_UndecodableFrameDropped ==
  [][\A g \in Gens :
       /\ \A f \in {"unknown", "bad"} :
            (RxFrame(g, f) /\ connected) => (connected' /\ DropLeaves /\ ReadsOn(g))
       /\ \A k \in Kinds :
            (RxFrame(g, k) /\ connected /\ nframes >= 1 /\ log = <<>>) =>
               /\ \E j \in 1..Len(log') : log'[j].seq = nframes + 1 /\ log'[j].pos = 0
               /\ fut' = DispatchWaiter(k, [kind |-> k, seq |-> nframes + 1])
               /\ connected' /\ rx'[g].pc = "read"]_vars

\* C20 witness: the first frame was dropped and the second was delivered to a
\* waiting caller.
C20_Witness ==
  /\ nframes = 2 /\ log # <<>> /\ connected /\ rx[1].pc = "read"
  /\ \A j \in 1..Len(log) : log[j].seq = 2
  /\ \E f \in FutIds : fut[f].state = "done" /\ fut[f].msg.seq = 2

\* The nearby-entity table a kind of appear message writes.
Tab(kind) ==
  CASE kind = "player" -> players
    [] kind = "monster" -> monsters
    [] kind = "npc" -> npcs
    [] OTHER -> ground_items

TabNext(kind) ==
  CASE kind = "player" -> players'
    [] kind = "monster" -> monsters'
    [] kind = "npc" -> npcs'
    [] OTHER -> ground_items'

Tables == {"player", "monster", "npc", "item"}

\* C16: processing one S_MapChanged message leaves the four nearby-entity
\* tables empty and the map identity equal to the message's, whatever the
\* tables held before.
C16_MapChangeAtomic ==
  [][\A m \in Maps, loc \in Locs, dir \in Dirs :
       OnMapChanged(m, loc, dir) =>
         /\ map' = [index |-> m, file |-> m, title |-> m]
         /\ \A t \in Tables, o \in ObjIds : ~TabNext(t)[o].present]_vars

\* C17 as stated: an appear message puts the entry with its location in the
\* matching table; an object-walk that follows for the same id gives that
\* entry the new location; an object-died that follows sets that entry's dead
\* flag and location and keeps it; an object-remove leaves the id in none of
\* the four tables.
C17_EntityLifecycle ==
  [][\A id \in ObjIds, loc \in Locs :
       /\ \A kind \in EntityKinds, d \in BOOLEAN :
            OnObjectAppear(kind, id, loc, d) =>
              (TabNext(kind)[id].present /\ TabNext(kind)[id].location = loc)
       /\ (OnObjectWalk(id, loc) /\ KindFor(id) # "none") =>
            (TabNext(KindFor(id))[id].present /\ TabNext(KindFor(id))[id].location = loc)
       /\ (OnObjectDied(id, loc) /\ KindFor(id) # "none") =>
            /\ TabNext(KindFor(id))[id].present /\ TabNext(KindFor(id))[id].dead
            /\ TabNext(KindFor(id))[id].location = loc
       /\ OnObjectRemove(id) => \A t \in Tables : ~TabNext(t)[id].present]_vars

\* Every entry but that of id in table t is as it was.
OthersKept(t, id) ==
  \A u \in Tables, o \in ObjIds : (u # t \/ o # id) => TabNext(u)[o] = Tab(u)[o]

\* C17 amended: an appear message inserts or replaces the entry of its id in
\* the matching table and nothing else; an object-walk gives the new location
\* to the entry of the id in the first of the player, monster and NPC tables
\* that holds it (the appeared entry when no table searched earlier holds the
\* id) and to nothing else, never to a ground item; an object-died sets dead
\* and the location of the entry in the first of the player and monster tables
\* that holds the id, which stays in its table, and nothing else; an
\* object-remove leaves the id in none of the four tables and the other ids
\* as they were.
C17_EntityLifecycleFirstMatch ==
  [][\A id \in ObjIds, loc \in Locs :
       /\ \A kind \in EntityKinds, d \in BOOLEAN :
            OnObjectAppear(kind, id, loc, d) =>
              /\ TabNext(kind)[id] = Entry(loc, d)
              /\ OthersKept(IF kind = "gold" THEN "item" ELSE kind, id)
       /\ OnObjectWalk(id, loc) =>
            LET first == IF players[id].present THEN "player"
                         ELSE IF monsters[id].present THEN "monster"
                         ELSE IF npcs[id].present THEN "npc" ELSE "none"
            IN /\ first # "none" =>
                    TabNext(first)[id] = [Tab(first)[id] EXCEPT !.location = loc]
               /\ OthersKept(first, id)
       /\ OnObjectDied(id, loc) =>
            LET first == IF players[id].present THEN "player"
                         ELSE IF monsters[id].present THEN "monster" ELSE "none"
            IN /\ first # "none" =>
                    TabNext(first)[id] =
                      [Tab(first)[id] EXCEPT !.dead = TRUE, !.location = loc]
               /\ OthersKept(first, id)
       /\ OnObjectRemove(id) =>
            /\ \A t \in Tables : ~TabNext(t)[id].present
            /\ \A t \in Tables, o \in ObjIds \ {id} : TabNext(t)[o] = Tab(t)[o]]_vars

\* C17 witness: a monster with the id of a known player appeared and a walk
\* for that id followed; the player entry has the new location, the monster
\* entry the one it appeared with.
C17_Witness ==
  /\ wlast.type = "walk" /\ wlast.kind = "monster" /\ wlast.id = 5 /\ wlast.n = 3
  /\ players[5] = Entry(2, FALSE)
  /\ monsters[5] = Entry(1, FALSE)
  /\ ~npcs[5].present /\ ~ground_items[5].present

\* C18: a gained-item message puts the item in the lowest-index None slot,
\* the length and every other slot unchanged; with no None slot the item
\* becomes a new last slot.
C18_InventorySlotReuse ==
  [][\A item \in Items :
       OnGainedItem(item) =>
         IF \E i \in 1..Len(inventory) : inventory[i] = None
           THEN /\ Len(inventory') = Len(inventory)
                /\ \E i \in 1..Len(inventory) :
                     /\ inventory[i] = None /\ inventory'[i] = item
                     /\ \A j \in 1..Len(inventory) :
                          /\ j < i => inventory[j] # None
                          /\ j # i => inventory'[j] = inventory[j]
           ELSE /\ Len(inventory') = Len(inventory) + 1
                /\ inventory'[Len(inventory')] = item
                /\ \A j \in 1..Len(inventory) : inventory'[j] = inventory[j]]_vars

\* C18 witness: the inventory was [None, item] and the item gained went to
\* slot 1, not to a third slot.
C18_Witness ==
  /\ wlast.type = "gained_item" /\ wlast.kind = "slot"
  /\ Len(inventory) = 2
  /\ inventory[1] # None /\ inventory[1].unique_id = wlast.id
  /\ inventory[2] # None

\* What a step appended to the record of invocations.
NewLog == SubSeq(log', Len(log) + 1, Len(log'))

\* C21: delivering a message of a kind nobody waits for is no error for the
\* correlator: _dispatch_waiter is invoked and raises nothing, the waiter map
\* and the futures are unchanged, and every handler of the kind's list (the
\* reducer, the subscribers) is invoked in order.
C21_NoWaiterNoError ==
  [][\A g \in Gens, k \in Kinds :
       (RxFrame(g, k) /\ connected /\ waiters[k] = <<>>) =>
         /\ waiters' = waiters /\ fut' = fut
         /\ Len(NewLog) = 1 + Len(handlers[k])
         /\ NewLog[1].pos = 0 /\ NewLog[1].ev = "waiter"
         /\ \A i \in 1..Len(handlers[k]) :
              /\ NewLog[i + 1].pos = i
              /\ NewLog[i + 1].reg = handlers[k][i].reg
              /\ NewLog[i + 1].ev = handlers[k][i].type
         /\ stage' = ReducerStage(k)
         /\ connected' /\ rx'[g].pc = "read"]_vars

\* C21 witness: a LoginSuccess nobody waited for went to the correlator, to
\* the reducer and to a subscriber registered behind it, while a caller waits
\* for the other kind.
C21_Witness ==
  /\ nframes = 1 /\ Len(log) = 3
  /\ log[1].ev = "waiter" /\ log[2].ev = "reducer" /\ log[3].ev = "sync"
  /\ stage = "SELECT"
  /\ waiters["LoginSuccess"] = <<>> /\ waiters["Login"] # <<>>
  /\ \A f \in FutIds : fut[f].state # "done"

\* The call of caller c ends in this step, with error status e.
Raises(c, e) == call[c].pc # "idle" /\ call'[c].pc = "idle" /\ call'[c].res.status = e

\* The message the call got is a rejection.
Rejection(m) ==
  \/ m.kind = "Login"
  \/ m.kind = "ClientVersion" /\ m.result # 1
  \/ m.kind = "StartGame" /\ m.result # 4

\* C22: a rejection is surfaced to the caller as an error; connect() raises for
\* a failed version check only after disconnect() has returned (connected is
\* False, the stream closed), while a rejected login or start-game raises in
\* a step that leaves the connection, its tasks and its stream as they were.
C22_RejectionsSurfaced ==
  /\ [][\A c \in Callers :
          /\ Raises(c, "version_failed") =>
               /\ ~connected' /\ disconnect_event'
               /\ drv'.pc = "idle" /\ drv'.last = "disconnected"
               /\ reader' = 0 /\ writer' = 0 /\ stream'[1].closed
               /\ TaskDone(rx'[1]) /\ TaskDone(ka'[1])
          /\ (Raises(c, "login_failed") \/ Raises(c, "start_failed")) =>
               /\ UNCHANGED <<connVars, rx, ka, stream, drv>>
               /\ call[c].pc = "waiting"]_vars
  /\ [](\A c \in Callers :
          (call[c].pc = "idle" /\ call[c].res.msg # NoMsg) =>
            (Rejection(call[c].res.msg) <=>
               call[c].res.status \in {"version_failed", "login_failed", "start_failed"}))

\* C22 witness: the version check failed, connect() has raised, and the
\* connection the server had left open is disconnected.
C22_Witness ==
  /\ call["c1"].pc = "idle" /\ call["c1"].res.status = "version_failed"
  /\ call["c1"].res.msg.kind = "ClientVersion" /\ call["c1"].res.msg.result = 4
  /\ ~connected /\ stream[1].status = "open" /\ stream[1].closed
  /\ rx[1].pc = "cancelled" /\ ka[1].pc = "cancelled"

\* C23: the bytes of a packet are the total length 4 + len(payload) as uint16
\* low byte first, the kind as int16 low byte first, then the payload; and the
\* receive loop takes a frame of that shape apart into the same kind and the
\* same payload, leaving the bytes behind the frame for the next read.
C23_FrameRoundTrip ==
  /\ (wire.op \in {"packed", "read"} /\ Len(wire.payload) <= 65531) =>
       /\ Len(wire.bytes) = 4 + Len(wire.payload)
       /\ \A i \in 1..4 : wire.bytes[i] \in 0..255
       /\ wire.bytes[1] + 256 * wire.bytes[2] = 4 + Len(wire.payload)
       /\ wire.bytes[3] + 256 * wire.bytes[4] = (wire.kind + 65536) % 65536
       /\ SubSeq(wire.bytes, 5, Len(wire.bytes)) = wire.payload
  /\ wire.op = "read" =>
       /\ wire.out.outcome = "frame"
       /\ wire.out.kind = wire.kind
       /\ wire.out.payload = wire.payload
       /\ wire.out.rest = wire.tail

\* C23 witness: a frame whose total length needs both bytes of the length
\* field, with a negative kind, was written and read back, more bytes
\* following it.
C23_Witness ==
  /\ wire.op = "read" /\ Len(wire.payload) = 252 /\ wire.kind = -1
  /\ wire.tail # <<>> /\ wire.out.outcome = "frame"
  /\ wire.bytes[1] = 0 /\ wire.bytes[2] = 1

\* The length of the 7-bit-group encoding of a number.
Groups(v) ==
  IF v.hi = 0 /\ v.lo < 128 THEN 1
  ELSE IF v.hi = 0 /\ v.lo < 16384 THEN 2
  ELSE IF v.hi < 32 THEN 3
  ELSE IF v.hi < 4096 THEN 4 ELSE 5

\* C24: the encoding of n has one byte per 7-bit group, the high bit set on
\* all bytes but the last (0 is the single byte 0); decoding it yields n and
\* stops at its last byte; and re-encoding the decoded value of a canonical
\* byte sequence yields the same bytes.
C24_VarintRoundTrip ==
  /\ wire.op \in {"encoded", "decoded"} =>
       /\ Len(wire.bytes) = Groups(wire.n)
       /\ Canonical(wire.bytes)
       /\ \A i \in 1..Len(wire.bytes) : wire.bytes[i] \in 0..255
       /\ wire.n = Wide(0, 0) => wire.bytes = <<0>>
  /\ wire.op = "decoded" =>
       /\ wire.out.value = wire.n
       /\ wire.out.used = Len(wire.bytes)
  /\ wire.op = "reencoded" => wire.again = wire.bytes

\* C24 witness: 2^32 - 1 went through its five-byte encoding and back, bytes
\* with the high bit set following it in the buffer.
C24_Witness ==
  /\ wire.op = "decoded" /\ wire.n = Wide(65535, 65535)
  /\ wire.bytes = <<255, 255, 255, 255, 15>>
  /\ wire.tail # <<>> /\ wire.out.value = Wide(65535, 65535)

\* C25: a waiter is fulfilled at most once, by the first message of its kind
\* dispatched after it was registered.  A future that holds a result keeps it
\* whatever is dispatched later; a frame of a kind fulfils every pending future
\* in the kind's list with that very frame; and a _wait_for on one kind that
\* returns hands out the message its future holds.
C25_FirstMessageWins ==
  [][/\ \A f \in FutIds : fut[f].state = "done" => fut'[f] = fut[f]
     /\ \A k \in Kinds, f \in FutIds :
          RxFrame(1, k) /\ InSeq(f, waiters[k]) /\ fut[f].state = "pending"
            => fut'[f] = [state |-> "done", msg |-> [kind |-> k, seq |-> nframes + 1]]
     /\ \A c \in Callers :
          /\ WaitForResume(c) /\ call[c].op = "wait" /\ Len(call[c].ids) = 1
          /\ ~call[c].cancel /\ fut[call[c].futs[1]].state = "done"
          => call'[c].res = [status |-> "returned", msg |-> fut[call[c].futs[1]].msg]
    ]_vars

\* Two messages of the kind were dispatched while the caller was suspended, and
\* the caller got the first.
C25_Witness ==
  \E c \in Callers :
    /\ call[c].pc = "idle" /\ call[c].op = "wait" /\ Len(call[c].ids) = 1
    /\ call[c].res.status = "returned"
    /\ call[c].res.msg.kind = call[c].ids[1]
    /\ call[c].res.msg.seq = 1
    /\ call[c].reg = 0
    /\ nframes = 2
    /\ fut[call[c].futs[1]].msg.seq = 1

\* C26: as long as the connection is connected, the keepalive loop started
\* with it is running (it is scheduled, or asleep until its next keepalive).
\* Stated of the states in which the receive loop has no step to take (it has
\* started, and it waits for bytes of an open stream or for the coroutine of a
\* handler), so that connected is not about to be withdrawn.
C26_KeepaliveWhileConnected ==
  (/\ connected
   /\ receive_task # 0
   /\ ~rx[receive_task].cancel
   /\ \/ rx[receive_task].pc = "handler"
      \/ /\ rx[receive_task].pc = "read"
         /\ stream[rx[receive_task].rd].status = "open"
         /\ ~stream[rx[receive_task].rd].closed)
  => keepalive_task # 0 /\ KaLive(keepalive_task)

\* C27: a failed send of the keepalive loop ends that loop, by a normal return,
\* and nothing else: connected and the disconnect event are as before, nobody
\* blocked in wait_disconnect is woken, the receive task and every other task
\* are where they were, and the connection keeps its streams and tasks.
C27_KeepaliveFailureLocal ==
  [][\A g \in Gens :
       KaTick(g) /\ connected /\ (SendNotConnected \/ DrainRaises(writer))
       => /\ ka' = [ka EXCEPT ![g] = Ended(@, "done")]
          /\ UNCHANGED <<connVars, rx, watch>>
          /\ \A s \in Gens : /\ stream'[s].status = stream[s].status
                             /\ stream'[s].closed = stream[s].closed]_vars

\* The keepalive loop of the connection is over after a send on a reset stream,
\* the connection still counts as connected and its receive loop is running.
C27_Witness ==
  /\ connected /\ ~disconnect_event
  /\ keepalive_task # 0 /\ receive_task # 0
  /\ ka[keepalive_task].pc = "done"
  /\ RxLive(receive_task)
  /\ writer # 0 /\ stream[writer].status = "reset" /\ stream[writer].written = 1

\* C28: the nearby-entity tables are scoped to the current map.  Whenever a
\* server message that its reducer has processed to the end changes the map
\* identity, the four tables are empty afterwards.
C28_TablesScopedToMap ==
  [][map' # map /\ ~wlast'.raised
     => \A o \in ObjIds : /\ ~players'[o].present /\ ~monsters'[o].present
                          /\ ~npcs'[o].present /\ ~ground_items'[o].present]_vars

\* C29: S_ObjectRemove for an id takes the id out of each of the four tables,
\* whether one table, several or none held it, and changes nothing else: each
\* table is afterwards what it was with the id's entry deleted, and the map
\* identity, the character and the inventory are untouched.
C29_RemoveFromAllTables ==
  [][\A id \in ObjIds :
       OnObjectRemove(id) =>
         /\ \A t \in Tables : TabNext(t) = [Tab(t) EXCEPT ![id] = Absent]
         /\ UNCHANGED <<map, char, inventory>>]_vars

\* An id that two tables held was removed while another id was known: the id
\* is in no table, the other id still is.
C29_Witness ==
  /\ wlast.type = "remove" /\ Cardinality(wlast.held) >= 2
  /\ \A t \in Tables : ~Tab(t)[wlast.id].present
  /\ \E t \in Tables, o \in ObjIds \ {wlast.id} : Tab(t)[o].present

\* C30: a position, turn or run update for an id writes the entry of the id in
\* the first of the player, monster and NPC tables that holds it, and nothing
\* else: the tables searched later keep their entry of the id, ground_items is
\* never written, and with the id in none of the three tables nothing changes.
C30_UpdateFirstMatchOnly ==
  [][\A id \in ObjIds, loc \in Locs :
       OnObjectWalk(id, loc) =>
         /\ ground_items' = ground_items
         /\ players' = IF players[id].present
                         THEN [players EXCEPT ![id].location = loc] ELSE players
         /\ players[id].present => monsters' = monsters /\ npcs' = npcs
         /\ ~players[id].present =>
              /\ monsters' = IF monsters[id].present
                               THEN [monsters EXCEPT ![id].location = loc] ELSE monsters
              /\ monsters[id].present => npcs' = npcs
              /\ ~monsters[id].present =>
                   npcs' = IF npcs[id].present
                             THEN [npcs EXCEPT ![id].location = loc] ELSE npcs
         /\ UNCHANGED <<map, char, inventory>>]_vars

\* An id held by the monster table, the NPC table and ground_items, each with
\* location 1, got an update to location 2: the monster entry has it, the NPC
\* entry and the ground item have not.
C30_Witness ==
  /\ wlast.type = "walk" /\ wlast.n = 4
  /\ wlast.held = {"monster", "npc", "item"}
  /\ monsters[wlast.id].location = 2
  /\ npcs[wlast.id] = Entry(1, FALSE)
  /\ ground_items[wlast.id] = Entry(1, FALSE)

\* C31: S_DeleteItem acts on the first slot whose item has the message's
\* unique id: the slot becomes None when the removed count reaches the stack
\* count, else the stack count goes down by the removed count; the length of
\* the inventory and every other slot are as before.
C31_DeleteItemKeepsSlots ==
  [][\A uid \in {1, 2}, cnt \in {1, 2} :
       OnDeleteItem(uid, cnt) =>
         /\ Len(inventory') = Len(inventory)
         /\ \A i \in 1..Len(inventory) :
              IF Holds(inventory, i, uid) /\ \A j \in 1..(i - 1) : ~Holds(inventory, j, uid)
                THEN inventory'[i] = IF cnt >= inventory[i].count
                                       THEN None
                                       ELSE [unique_id |-> uid,
                                             count |-> inventory[i].count - cnt]
                ELSE inventory'[i] = inventory[i]]_vars

\* The item of the first slot was deleted: the slot is None and the item behind
\* it is still in the second slot.
C31_Witness ==
  /\ wlast.type = "delete_item" /\ wlast.n = 3
  /\ Len(inventory) = 2
  /\ inventory[1] = None
  /\ inventory[2] # None /\ inventory[2].unique_id # wlast.id

\* The world state a reducer can write.
World == <<players, monsters, npcs, ground_items, map, char, inventory>>

\* C32: reducers tolerate what they do not know.  A walk, turn or run, a died
\* and a health update for an id that none of the tables searched holds, a
\* remove for an id in no table, a delete-item for a unique id no slot holds
\* and a remove-buff for a buff that is not there raise nothing and leave the
\* world state as it was.
C32_UnknownIsNoOp ==
  [][/\ \A id \in ObjIds, loc \in Locs :
          /\ (OnObjectWalk(id, loc)
              /\ ~players[id].present /\ ~monsters[id].present /\ ~npcs[id].present)
             => (UNCHANGED World /\ ~wlast'.raised)
          /\ (OnObjectDied(id, loc) /\ ~players[id].present /\ ~monsters[id].present)
             => (UNCHANGED World /\ ~wlast'.raised)
          /\ (OnObjectHealth(id, 50) /\ ~players[id].present /\ ~monsters[id].present)
             => (UNCHANGED World /\ ~wlast'.raised)
          /\ (OnObjectRemove(id) /\ \A t \in Tables : ~Tab(t)[id].present)
             => (UNCHANGED World /\ ~wlast'.raised)
     /\ \A uid \in {1, 2}, cnt \in {1, 2} :
          (OnDeleteItem(uid, cnt) /\ \A i \in 1..Len(inventory) : ~Holds(inventory, i, uid))
          => (UNCHANGED World /\ ~wlast'.raised)
     /\ \A ty \in {1, 2} :
          (OnRemoveBuff(ty) /\ ty \notin char.buffs)
          => (UNCHANGED World /\ ~wlast'.raised)]_vars

\* A remove-buff for a buff that was not there came in while another buff, an
\* entity and an item were known: all three are still there.
C32_Witness ==
  /\ wlast.type = "remove_buff" /\ wlast.kind = "absent" /\ ~wlast.raised
  /\ char.buffs # {}
  /\ \E t \in Tables, o \in ObjIds : Tab(t)[o].present
  /\ Len(inventory) = 1 /\ inventory[1] # None

\* C33: S_ObjectDied sets dead and the location of the id's entry in the first
\* of the player and monster tables that holds it, and changes no other entry
\* and nothing of the character, its dead flag included; the character's own
\* S_Death sets the character's dead flag and leaves the four tables as they
\* were.
C33_DeathEvents ==
  [][/\ \A id \in ObjIds, loc \in Locs :
          OnObjectDied(id, loc) =>
            LET owner == IF players[id].present THEN "player"
                         ELSE IF monsters[id].present THEN "monster" ELSE "none"
            IN /\ owner # "none" =>
                    TabNext(owner)[id] = [Tab(owner)[id] EXCEPT !.dead = TRUE, !.location = loc]
               /\ OthersKept(owner, id)
               /\ char' = char
     /\ \A loc \in Locs, dir \in Dirs :
          OnDeath(loc, dir) =>
            /\ char'.dead
            /\ UNCHANGED <<players, monsters, npcs, ground_items>>]_vars

\* The character died, then an id held by the player and the monster table
\* died: the player entry is dead at the new location, the monster entry is
\* not, and the character's flag is still set.
C33_Witness ==
  /\ wlast.type = "died" /\ wlast.held = {"player", "monster"} /\ wlast.n = 4
  /\ players[wlast.id] = Entry(2, TRUE)
  /\ monsters[wlast.id] = Entry(1, FALSE)
  /\ char.dead

\* C34 as stated: gold and experience deltas are additive.  Each S_GainedGold
\* adds its amount to gold, each S_LoseGold takes its amount off gold and each
\* S_GainExperience adds its amount to experience, so that after any sequence
\* gold is what it was plus the amounts gained minus the amounts lost.
C34_DeltasAdditive ==
  [][\A a \in Amounts :
       /\ OnGainedGold(a) => char'.gold = char.gold + a
       /\ OnLoseGold(a) => char'.gold = char.gold - a
       /\ OnGainExperience(a) => char'.experience = char.experience + a]_vars

\* C34 amended: S_GainedGold adds its amount to gold and S_GainExperience its
\* amount to experience; S_LoseGold takes its amount off gold but never below
\* zero (gold becomes max(0, gold - amount)), so the sum is exact as long as no
\* loss exceeds the gold held when it arrives; gold is never negative, and
\* each of the three messages changes nothing but its own field.
C34_DeltasAdditiveFloorZero ==
  /\ [](char.gold >= 0)
  /\ [][\A a \in Amounts :
          /\ OnGainedGold(a) => char' = [char EXCEPT !.gold = char.gold + a]
          /\ OnLoseGold(a) =>
               /\ a <= char.gold => char' = [char EXCEPT !.gold = char.gold - a]
               /\ a > char.gold => char' = [char EXCEPT !.gold = 0]
          /\ OnGainExperience(a) =>
               char' = [char EXCEPT !.experience = char.experience + a]]_vars

\* Gold was gained and lost within what was held, then a loss larger than the
\* rest came in: gold is 0.
C34_Witness ==
  /\ wlast.type = "lose_gold" /\ wlast.kind = "clamped" /\ wlast.n = 3
  /\ char.gold = 0
  /\ char.experience = 0

\* C35: no reply is lost between the two waits of select_character().  When
\* the server has answered with S_StartGame(result=4) and S_UserInformation,
\* the caller is never left waiting for an S_UserInformation that has already
\* been dispatched.
C35_NoReplyLost ==
  \A c \in Callers :
    (call[c].pc = "waiting" /\ call[c].op = "user_info" /\ ~call[c].cancel)
    => ~(stage = "GAME" /\ char.name = SelectedUser.name
         /\ fut[call[c].futs[1]].state = "pending")

\* C36: in login() the waiter for the reply is registered before the reply can
\* be dispatched.  Once the S_LoginSuccess that answers the C_Login has been
\* dispatched (its reducer has set the stage), the caller is not waiting for
\* it with every future still pending, and is not still inside send().
C36_WaiterBeforeReply ==
  \A c \in Callers :
    stage = "SELECT" =>
      /\ call[c].pc # "draining"
      /\ (call[c].pc = "waiting" /\ call[c].op = "login" /\ ~call[c].cancel)
         => \E f \in FutsOf(c) : fut[f].state = "done"

\* C37: when _wait_for returns a message to its caller, every state reducer
\* registered for the message's kind has already been run on that message,
\* although the waiter dispatcher is invoked before the reducers.
C37_ReducersBeforeReturn ==
  [][\A c \in Callers :
       (WaitForResume(c) /\ call'[c].res.status = "returned") =>
         LET m == call'[c].res.msg IN
         /\ \A i \in 1..Len(handlers[m.kind]) :
              handlers[m.kind][i].type = "reducer" =>
                \E j \in 1..Len(log) :
                  /\ log[j].seq = m.seq /\ log[j].ev = "reducer"
                  /\ log[j].reg = handlers[m.kind][i].reg
                  /\ \E h \in 1..(j - 1) : log[h].seq = m.seq /\ log[h].ev = "waiter"
         /\ m.kind = "LoginSuccess" => stage = "SELECT"]_vars

\* The caller has its S_LoginSuccess while the receive loop is still suspended
\* in the coroutine of a subscriber of the kind: the reducer ran before the
\* loop suspended.
C37_Witness ==
  /\ rx[1].pc = "handler" /\ rx[1].kind = "LoginSuccess" /\ rx[1].seq = 1
  /\ \E c \in Callers :
       /\ call[c].pc = "idle" /\ call[c].res.status = "returned"
       /\ call[c].res.msg = [kind |-> "LoginSuccess", seq |-> 1]
  /\ stage = "SELECT"
  /\ Len(log) = 3 /\ log[1].ev = "waiter" /\ log[2].ev = "reducer" /\ log[3].ev = "coro"

\* C38: a _wait_for with alternate kinds that finds more than one of its
\* futures fulfilled when it resumes returns the message that was dispatched
\* first: the message it returned is no later than any message its futures
\* hold.
C38_ReturnsFirstDispatched ==
  \A c \in Callers :
    (call[c].pc = "idle" /\ call[c].op = "wait" /\ call[c].res.status = "returned")
    => \A f \in FutsOf(c) :
         fut[f].state = "done" => call[c].res.msg.seq <= fut[f].msg.seq

\* C39: each state reducer is atomic with respect to failure.  A message whose
\* reducer raises leaves the world state exactly as it was before the message.
C39_ReducerFailureAtomic ==
  [][wlast'.raised => UNCHANGED World]_vars

\* C40: every _wait_for call eventually returns or raises.  A pending call
\* ends; it ends by returning a message, by TimeoutError or by the
\* cancellation of its task, and whichever way it ends none of its futures
\* stays in the waiter map; a call whose futures are all pending when the
\* connection is Disconnected is ended by its timeout.
C40_WaitForTerminates ==
  /\ \A c \in Callers : Waiting(c) ~> ~Waiting(c)
  /\ [][\A c \in Callers :
          (Waiting(c) /\ ~Waiting(c)') =>
            /\ call'[c].res.status \in {"returned", "timeout", "cancelled"}
            /\ \A k \in Kinds : SeqSet(waiters'[k]) \cap FutsOf(c) = {}
            /\ (~connected /\ ~call[c].cancel
                /\ \A f \in FutsOf(c) : fut[f].state = "pending")
               => (call[c].timed /\ call'[c].res.status = "timeout")]_vars

\* The peer closed the connection while a call was pending; the receive loop
\* is over, the call was ended by its timeout and the waiter map is empty.
C40_Witness ==
  /\ ~connected /\ disconnect_event /\ rx[1].pc = "done"
  /\ call["c1"].pc = "idle" /\ call["c1"].res.status = "timeout"
  /\ call["c1"].reg = nframes
  /\ \A f \in FutsOf("c1") : fut[f].state = "cancelled"
  /\ NoWaiters
====
